---- MODULE Spec2Model ----
(***************************************************************************)
(* Control core of the OpenTRV V0p2 radiator valve controller              *)
(* (V0p2_Main/Control.cpp): the target temperature policy                  *)
(* (computeTargetTemp), the modelled valve state machine                   *)
(* (computeRequiredTRVPercentOpen, ModelledRadValveState::tick) and the    *)
(* occupancy tracker.                                                      *)
(* Temperatures are in 16ths of a degree C (C16) or whole degrees (C);     *)
(* uint8_t / int8_t arithmetic keeps its width through U8 and I8.          *)
(***************************************************************************)
EXTENDS Integers, Sequences, FiniteSets, TLC

VARIABLES
  value,                   \* ModelledRadValve::value, the valve percent open
  inputState,              \* ModelledRadValve::inputState, as passed to the last tick()
  isFiltering,             \* ModelledRadValveState::isFiltering
  prevRawTempC16,          \* ModelledRadValveState::prevRawTempC16[filterLength]
  initialised,             \* ModelledRadValveState::initialised
  valveTurndownCountdownM, \* set by valveTurndown(), read by dontTurnup()
  valveTurnupCountdownM,   \* set by valveTurnup(), read by dontTurndown()
  cumulativeMovementPC,    \* ModelledRadValveState::cumulativeMovementPC
  valveMoved,              \* ModelledRadValveState::valveMoved
  isWarmMode,              \* static bool isWarmMode
  bakeCountdownM,          \* static uint_least8_t bakeCountdownM
  occupationCountdownM,    \* OccupancyTracker::occupationCountdownM
  vacancyM,                \* OccupancyTracker::vacancyM
  vacancyH,                \* OccupancyTracker::vacancyH
  activityCountdownM,      \* OccupancyTracker::activityCountdownM
  occupancyValue,          \* OccupancyTracker::value, the confidence percent
  env,                     \* readings of the collaborators read by computeTargetTemp()
  newTarget,               \* result of the last computeTargetTemp() call
  callingForHeat,          \* ModelledRadValve::callingForHeat
  tempPotAvailable,        \* the build defines TEMP_POT_AVAILABLE
  tempPot,                 \* TempPot.get(), the temperature dial position
  rhHigh,                  \* RelHumidity.isAvailable() && RelHumidity.isRHHighWithHyst()
  readsSinceMark,          \* history: read() calls since the room was last marked
  readPC,                  \* position of the main line in OccupancyTracker::read()
  irq,                     \* the occupancy interrupt, and the position of its handler
  occAtStart,              \* history: the tracker before the read and the interrupt
  eeStatsSet,              \* the 24 EEPROM bytes of the stats set under query
  quartileQuery,           \* the last quartile query and its result
  smoothCall,              \* the last smoothStatsValue() call and its result
  sampleCount_,            \* sampleStats(): sub-samples taken since the last full sample
  statsTotals,             \* sampleStats(): ambLightTotal, tempC16Total, occpcTotal
  eeStats,                 \* EEPROM 'last' and 'smoothed' bytes by hour of each stats pair
  statsUpdate,             \* history: hour and values of the last full sample
  statsSamplesTaken,       \* history: full samples taken so far
  warmCount,               \* sampleStats(): WARM samples less FROST samples so far
  eeWarmHistory,           \* EEPROM warm-mode history byte of each hour
  codecCall,               \* the last compressTempC16() / expandTempC16() round trip
  zapCall,                 \* the last zapStats() call and its result
  looping,                 \* setup() has run and loop() is being called
  TIME_LSD,                \* loop(): the controller's seconds within the minute
  rtcMinutes,              \* the RTC's getMinutesLT()
  rtcHours,                \* the RTC's getHoursLT()
  minuteCount,             \* loop(): elapsed minutes, modulo 256
  samplesInHour,           \* history: samples and overruns in this clock hour
  hoursRun,                \* history: clock hours ended while looping
  overruns,                \* history: loop overruns so far
  loopTicks,               \* history: iterations of loop() so far
  minBoilerOnMinutes,      \* getMinBoilerOnMinutes(), from EEPROM; 0 when not a hub
  boilerCountdownTicks,    \* loop(): ticks until the boiler is to be turned off
  boilerNoCallM,           \* loop(): minutes since the last remote call for heat
  heatCallOut,             \* the level last written to OUT_HEATCALL
  valveReallyOpen,         \* history: isControlledValveReallyOpen() at that write
  ticksSinceHeard          \* history: iterations since a remote call was heard, or -1

valveVars == <<value, inputState, isFiltering, prevRawTempC16, initialised,
               valveTurndownCountdownM, valveTurnupCountdownM,
               cumulativeMovementPC, valveMoved>>
modeVars == <<isWarmMode, bakeCountdownM>>
occupancyVars == <<occupationCountdownM, vacancyM, vacancyH, activityCountdownM,
                   occupancyValue>>
targetVars == <<env, newTarget>>
\* State read and written only by the operations outside the valve tick and
\* the target policy.
dialVars == <<tempPotAvailable, tempPot, rhHigh>>
raceVars == <<readsSinceMark, readPC, irq, occAtStart>>
sampleVars == <<sampleCount_, statsTotals, eeStats, statsUpdate, statsSamplesTaken,
                warmCount, eeWarmHistory>>
callVars == <<codecCall, zapCall>>
\* The main loop's clock and counters.
clockVars == <<looping, TIME_LSD, rtcMinutes, rtcHours, minuteCount, samplesInHour,
               hoursRun, overruns, loopTicks>>
hubVars == <<minBoilerOnMinutes, boilerCountdownTicks, boilerNoCallM, heatCallOut,
             valveReallyOpen, ticksSinceHeard>>
loopVars == <<clockVars, hubVars>>
\* The stats store, and the main loop that samples it.
statsVars == <<eeStatsSet, quartileQuery, smoothCall, sampleVars, callVars, loopVars>>
auxVars == <<callingForHeat, dialVars, raceVars, statsVars>>
vars == <<valveVars, modeVars, occupancyVars, targetVars, auxVars>>

(***************************************************************************)
(* Fixed-width arithmetic and the small helpers of the Arduino headers.    *)
(***************************************************************************)
U8(x) == x % 256

I8(x) == ((x + 128) % 256) - 128

U16(x) == x % 65536

fnmax(a, b) == IF a > b THEN a ELSE b

fnmin(a, b) == IF a < b THEN a ELSE b

abs(x) == IF x < 0 THEN -x ELSE x

constrain(x, lo, hi) == IF x < lo THEN lo ELSE IF x > hi THEN hi ELSE x

\* x >> 4 on a (two's complement) int: floor division by 16.
Shr4(x) == x \div 16

(***************************************************************************)
(* Constants set in Control.cpp.                                           *)
(***************************************************************************)
TRV_MIN_SLEW_PC == 7

TRV_MIN_SLEW_PC_PER_MIN == 1

TRV_MAX_SLEW_PC_PER_MIN == 5

TRV_SLEW_PC_PER_MIN_VFAST == fnmin(34, 4 * TRV_MAX_SLEW_PC_PER_MIN)

TRV_SLEW_PC_PER_MIN_FAST == fnmin(20, 2 * TRV_MAX_SLEW_PC_PER_MIN)

refTempOffsetC16 == 8

MAX_TEMP_JUMP_C16 == 3

ulpStep == 6

(***************************************************************************)
(* Constants and accessors declared in Control.h, which Control.cpp        *)
(* includes.                                                               *)
(***************************************************************************)
MIN_TARGET_C == 5

MAX_TARGET_C == 100

BIASECO_FROST == MIN_TARGET_C

BIASCOM_FROST == 5 + MIN_TARGET_C

BIASECO_WARM == 17

BIASCOM_WARM == 21

BAKE_UPLIFT == 5

BAKE_MAX_M == 30

\* Default targets of a unit whose stored targets are unset.
FROST == BIASECO_FROST

WARM == BIASECO_WARM

OCCUPATION_TIMEOUT_M == 50

OCCUPATION_TIMEOUT_1_M == (OCCUPATION_TIMEOUT_M * 2) \div 3

\* Hours of vacancy above which the room is long vacant, and long long vacant.
longVacantHThrH == 24

longLongVacantHThrH == 48

\* An erased EEPROM byte.
EE_UNSET == 255

SETBACK_DEFAULT == 1

SETBACK_ECO == 1 + SETBACK_DEFAULT

SETBACK_FULL == 3

DEFAULT_MIN_VALVE_PC_REALLY_OPEN == 10

DEFAULT_VALVE_PC_MODERATELY_OPEN == 33

DEFAULT_MAX_RUN_ON_TIME_M == 5

DEFAULT_ANTISEEK_VALVE_RECLOSE_DELAY_M == 5

DEFAULT_ANTISEEK_VALVE_REOPEN_DELAY_M == DEFAULT_ANTISEEK_VALVE_RECLOSE_DELAY_M * 2

\* Length of the raw temperature ring kept by the model (filterLength).
FilterLength == 3

RECURSIVE SeqSum(_)
SeqSum(s) == IF s = <<>> THEN 0 ELSE Head(s) + SeqSum(Tail(s))

\* smallIntMean<N>(data): the rounded mean of N ints, C division truncating to zero.
smallIntMean(data) ==
  LET n == Len(data)
      t == SeqSum(data) + (n \div 2)
  IN IF t >= 0 THEN t \div n ELSE -((-t) \div n)

getSmoothedRecent(hist) == smallIntMean(hist)

\* ModelledRadValveState::getRawDelta(): the last change of the raw temperature.
getRawDelta(hist) == hist[1] - hist[2]

dontTurnup(turndownCountdown) == turndownCountdown # 0

dontTurndown(turnupCountdown) == turnupCountdown # 0

(***************************************************************************)
(* ModelledRadValve::computeRequiredTRVPercentOpen(valvePCOpen, inputState,*)
(* retainedState): rs carries the fields of the retained state it reads.   *)
(***************************************************************************)
adjustedTempC16(in, rs) ==
  IF rs.isFiltering THEN getSmoothedRecent(rs.prevRawTempC16) + refTempOffsetC16
                    ELSE in.refTempC16

adjustedTempC(in, rs) == I8(Shr4(adjustedTempC16(in, rs)))

\* Mutant of beGlacialOpening: an explicit request for glacial mode is ignored.
beGlacialOpeningNotRequested(valvePCOpen, in, rs) ==
  valvePCOpen >= in.minPCOpen /\
    ((in.widenDeadband /\ in.hasEcoBias /\
      adjustedTempC(in, rs) >= U8(fnmax(in.targetTempC - SETBACK_FULL, MIN_TARGET_C))) \/
     (rs.isFiltering /\ getRawDelta(rs.prevRawTempC16) > 0))

\* "Open glacially if explicitly requested or if temperature overshoot has happened
\* or is a danger, or if there's likely no one going to care".
beGlacialOpening(valvePCOpen, in, rs) ==
  in.glacial \/
  (valvePCOpen >= in.minPCOpen /\
    ((in.widenDeadband /\ in.hasEcoBias /\
      adjustedTempC(in, rs) >= U8(fnmax(in.targetTempC - SETBACK_FULL, MIN_TARGET_C))) \/
     (rs.isFiltering /\ getRawDelta(rs.prevRawTempC16) > 0)))

\* Mutant of openSlewRate: the fast rate whatever the valve position.
openSlewRateAlwaysFast(valvePCOpen, in, rs) == TRV_SLEW_PC_PER_MIN_FAST

\* Slew rate when opening: "Less fast if already moderately open or in the degree
\* below target."
openSlewRate(valvePCOpen, in, rs) ==
  IF valvePCOpen >= DEFAULT_VALVE_PC_MODERATELY_OPEN
     \/ adjustedTempC(in, rs) = in.targetTempC - 1
    THEN TRV_MAX_SLEW_PC_PER_MIN ELSE TRV_SLEW_PC_PER_MIN_FAST

minOpenFromCold(valvePCOpen, in, rs) == fnmax(openSlewRate(valvePCOpen, in, rs), in.minPCOpen)

\* Mutant of slewOpen: the slew towards open is not capped at maxPCOpen.
slewOpenUncapped(valvePCOpen, in, rs) ==
  IF valvePCOpen < minOpenFromCold(valvePCOpen, in, rs)
    THEN minOpenFromCold(valvePCOpen, in, rs)
    ELSE U8(valvePCOpen + openSlewRate(valvePCOpen, in, rs))

\* "Open to 'minimum' likely open state immediately if less open currently",
\* else "slew open relatively gently", capped at maximum.
slewOpen(valvePCOpen, in, rs) ==
  IF valvePCOpen < minOpenFromCold(valvePCOpen, in, rs)
    THEN minOpenFromCold(valvePCOpen, in, rs)
    ELSE fnmin(U8(valvePCOpen + openSlewRate(valvePCOpen, in, rs)), in.maxPCOpen)

\* Mutant of openValveUp: a recent turn-down does not defer re-opening.
openValveUpNoHysteresis(valvePCOpen, in, rs) ==
  IF valvePCOpen < in.maxPCOpen
    THEN IF in.inBakeMode THEN in.maxPCOpen
         ELSE IF beGlacialOpening(valvePCOpen, in, rs) THEN U8(valvePCOpen + 1)
         ELSE slewOpen(valvePCOpen, in, rs)
    ELSE in.maxPCOpen

\* Mutant of openValveUp: the turn-down hysteresis is tested before BAKE.
openValveUpHysteresisFirst(valvePCOpen, in, rs) ==
  IF valvePCOpen < in.maxPCOpen
    THEN IF dontTurnup(rs.valveTurndownCountdownM) THEN valvePCOpen
         ELSE IF in.inBakeMode THEN in.maxPCOpen
         ELSE IF beGlacialOpening(valvePCOpen, in, rs) THEN U8(valvePCOpen + 1)
         ELSE slewOpen(valvePCOpen, in, rs)
    ELSE in.maxPCOpen

\* Branch "(Well) under temp target: open valve up."
openValveUp(valvePCOpen, in, rs) ==
  IF valvePCOpen < in.maxPCOpen
    THEN IF in.inBakeMode THEN in.maxPCOpen
         ELSE IF dontTurnup(rs.valveTurndownCountdownM) THEN valvePCOpen
         ELSE IF beGlacialOpening(valvePCOpen, in, rs) THEN U8(valvePCOpen + 1)
         ELSE slewOpen(valvePCOpen, in, rs)
    ELSE in.maxPCOpen

\* Mutant of closeStep: no final burst, the valve lingers down to 0 in steps of 1.
closeStepNoBurst(valvePCOpen, in, rs) ==
  LET justOverTemp == (adjustedTempC(in, rs) = in.targetTempC + 1)
      minReallyOpen == in.minPCOpen
      lingerThreshold == IF minReallyOpen > 0 THEN minReallyOpen - 1 ELSE 0
  IN IF justOverTemp /\ in.widenDeadband /\ getRawDelta(rs.prevRawTempC16) < 0
       THEN valvePCOpen
     ELSE IF justOverTemp /\ rs.isFiltering THEN U8(valvePCOpen - 1)
     ELSE IF valvePCOpen < minReallyOpen THEN U8(valvePCOpen - 1)
     ELSE IF (~in.hasEcoBias \/ justOverTemp \/ rs.isFiltering)
             /\ valvePCOpen > constrain(lingerThreshold + TRV_SLEW_PC_PER_MIN_FAST,
                                        TRV_SLEW_PC_PER_MIN_FAST, in.maxPCOpen)
       THEN U8(valvePCOpen - TRV_SLEW_PC_PER_MIN_FAST)
     ELSE lingerThreshold

\* The closing steps below the hysteresis test of "if(0 != valvePCOpen)".
closeStep(valvePCOpen, in, rs) ==
  LET justOverTemp == (adjustedTempC(in, rs) = in.targetTempC + 1)
      minReallyOpen == in.minPCOpen
      lingerThreshold == IF minReallyOpen > 0 THEN minReallyOpen - 1 ELSE 0
  IN IF justOverTemp /\ in.widenDeadband /\ getRawDelta(rs.prevRawTempC16) < 0
       THEN valvePCOpen
     ELSE IF justOverTemp /\ rs.isFiltering THEN U8(valvePCOpen - 1)
     ELSE IF valvePCOpen < minReallyOpen
       THEN IF DEFAULT_MAX_RUN_ON_TIME_M < minReallyOpen
               /\ valvePCOpen < minReallyOpen - DEFAULT_MAX_RUN_ON_TIME_M
              THEN 0
              ELSE U8(valvePCOpen - 1)
     ELSE IF (~in.hasEcoBias \/ justOverTemp \/ rs.isFiltering)
             /\ valvePCOpen > constrain(lingerThreshold + TRV_SLEW_PC_PER_MIN_FAST,
                                        TRV_SLEW_PC_PER_MIN_FAST, in.maxPCOpen)
       THEN U8(valvePCOpen - TRV_SLEW_PC_PER_MIN_FAST)
     ELSE lingerThreshold

\* Mutant of closeOpenValve: the turn-up hysteresis does not hold the valve.
closeOpenValveNoHysteresis(valvePCOpen, in, rs) == closeStep(valvePCOpen, in, rs)

\* Closing a valve that is not yet fully closed (the body of "if(0 != valvePCOpen)"):
\* "Continue shutting valve as not yet closed", unless held by hysteresis.
closeOpenValve(valvePCOpen, in, rs) ==
  IF dontTurndown(rs.valveTurnupCountdownM) THEN valvePCOpen
  ELSE closeStep(valvePCOpen, in, rs)

\* Mutant of closeValveDown: a recent turn-up does not defer re-closing.
closeValveDownNoHysteresis(valvePCOpen, in, rs) ==
  IF valvePCOpen # 0 THEN closeStep(valvePCOpen, in, rs) ELSE 0

\* Mutant of closeValveDown: a fully closed valve is closed further.
closeValveDownNoZeroTest(valvePCOpen, in, rs) == closeOpenValve(valvePCOpen, in, rs)

\* Branch "(Well) over temp target: close valve down."
closeValveDown(valvePCOpen, in, rs) ==
  IF valvePCOpen # 0 THEN closeOpenValve(valvePCOpen, in, rs) ELSE 0

\* Proportional target: 16 minus the low 4 bits of the temperature, times ulpStep,
\* constrained to [minPCOpen, maxPCOpen].
lsbitsOf(in, rs) == adjustedTempC16(in, rs) % 16

\* Mutant of targetPOOf: the proportional target is not constrained to the limits.
targetPOOfUnclamped(in, rs) == U8(U8(16 - lsbitsOf(in, rs)) * ulpStep)

targetPOOf(in, rs) ==
  constrain(U8(U8(16 - lsbitsOf(in, rs)) * ulpStep), in.minPCOpen, in.maxPCOpen)

minAbsSlewOf(in) ==
  fnmax(1 + ulpStep,
        U8(IF in.widenDeadband
             THEN fnmax(fnmin(DEFAULT_VALVE_PC_MODERATELY_OPEN \div 2,
                              fnmax(TRV_MAX_SLEW_PC_PER_MIN, 2 * TRV_MIN_SLEW_PC)),
                        2 + TRV_MIN_SLEW_PC)
             ELSE TRV_MIN_SLEW_PC))

\* Branch "Close to (or at) temp target: set valve partly open".
regulateNearTarget(valvePCOpen, in, rs) ==
  LET lsbits == lsbitsOf(in, rs)
      targetPO == targetPOOf(in, rs)
      tooOpen == targetPO < valvePCOpen
      minAbsSlew == minAbsSlewOf(in)
      rawDelta == getRawDelta(rs.prevRawTempC16)
      slewDown == U8(valvePCOpen - targetPO)
      glacialDown ==
        in.glacial \/
        ((in.widenDeadband \/ rs.isFiltering)
           /\ valvePCOpen <= DEFAULT_VALVE_PC_MODERATELY_OPEN) \/
        lsbits < 8
      slewUp == U8(targetPO - valvePCOpen)
      glacialUp ==
        in.glacial \/ in.widenDeadband \/ lsbits >= 8 \/
        (lsbits >= 4 /\ valvePCOpen >= DEFAULT_VALVE_PC_MODERATELY_OPEN)
      maxSlew == IF ~in.hasEcoBias THEN TRV_SLEW_PC_PER_MIN_FAST
                                   ELSE TRV_MAX_SLEW_PC_PER_MIN
  IN IF targetPO = valvePCOpen THEN valvePCOpen
     ELSE IF tooOpen
       THEN IF slewDown < minAbsSlew THEN valvePCOpen
            ELSE IF dontTurndown(rs.valveTurnupCountdownM) THEN valvePCOpen
            ELSE IF rawDelta <= 0 THEN valvePCOpen
            ELSE IF glacialDown THEN U8(valvePCOpen - 1)
            ELSE IF slewDown > TRV_SLEW_PC_PER_MIN_FAST
              THEN U8(valvePCOpen - TRV_SLEW_PC_PER_MIN_FAST)
            ELSE targetPO
       ELSE IF in.inBakeMode THEN in.maxPCOpen
            ELSE IF slewUp < minAbsSlew THEN valvePCOpen
            ELSE IF dontTurnup(rs.valveTurndownCountdownM) THEN valvePCOpen
            ELSE IF rawDelta > 0 THEN valvePCOpen
            ELSE IF lsbits >= (IF in.widenDeadband THEN 8 ELSE 12) THEN valvePCOpen
            ELSE IF glacialUp THEN U8(valvePCOpen + 1)
            ELSE IF slewUp > maxSlew THEN U8(valvePCOpen + maxSlew)
            ELSE targetPO

computeRequiredTRVPercentOpen(valvePCOpen, in, rs) ==
  LET aC == adjustedTempC(in, rs)
  IN IF aC < in.targetTempC THEN openValveUp(valvePCOpen, in, rs)
     ELSE IF aC > in.targetTempC THEN closeValveDown(valvePCOpen, in, rs)
     ELSE regulateNearTarget(valvePCOpen, in, rs)

(***************************************************************************)
(* ModelledRadValveState::tick(valvePCOpenRef, inputState).                *)
(***************************************************************************)
\* The retained-state fields read by computeRequiredTRVPercentOpen.
RetainedState(filtering, hist, turndown, turnup) ==
  [isFiltering |-> filtering, prevRawTempC16 |-> hist,
   valveTurndownCountdownM |-> turndown, valveTurnupCountdownM |-> turnup]

retainedState == RetainedState(isFiltering, prevRawTempC16,
                               valveTurndownCountdownM, valveTurnupCountdownM)

\* Mutant of shiftInRaw: the history is not filled on the first tick.
shiftInRawNoFill(hist, isInit, rawTempC16) ==
  [i \in 1..FilterLength |-> IF i = 1 THEN rawTempC16 ELSE hist[i - 1]]

\* Lazy initialisation, then the shift of the latest raw temperature into slot 0.
shiftInRaw(hist, isInit, rawTempC16) ==
  LET filled == IF isInit THEN hist ELSE [i \in 1..FilterLength |-> rawTempC16]
  IN [i \in 1..FilterLength |-> IF i = 1 THEN rawTempC16 ELSE filled[i - 1]]

\* Mutant of updateFiltering: a jump between adjacent readings does not force
\* the filter on.
updateFilteringNoForceOn(filtering, hist, rawTempC16) ==
  IF filtering /\ abs(getSmoothedRecent(hist) - rawTempC16) <= MAX_TEMP_JUMP_C16
    THEN FALSE ELSE filtering

\* Mutant of updateFiltering: the filter is switched off only by a reading equal
\* to the smoothed value.
updateFilteringExitOnEqual(filtering, hist, rawTempC16) ==
  LET afterExit ==
        IF filtering /\ getSmoothedRecent(hist) = rawTempC16 + 1
          THEN FALSE ELSE filtering
  IN IF ~afterExit
        /\ \E i \in 2..FilterLength : abs(hist[i] - hist[i - 1]) > MAX_TEMP_JUMP_C16
       THEN TRUE ELSE afterExit

\* "Disable/enable filtering": off when the smoothed value is close to the raw one,
\* (back) on when two adjacent readings differ by more than MAX_TEMP_JUMP_C16.
updateFiltering(filtering, hist, rawTempC16) ==
  LET afterExit ==
        IF filtering /\ abs(getSmoothedRecent(hist) - rawTempC16) <= MAX_TEMP_JUMP_C16
          THEN FALSE ELSE filtering
  IN IF ~afterExit
        /\ \E i \in 2..FilterLength : abs(hist[i] - hist[i - 1]) > MAX_TEMP_JUMP_C16
       THEN TRUE ELSE afterExit

\* Mutant of tickCountdown: a pending countdown never runs down.
tickCountdownStuck(c) == c

\* "if(valveTurndownCountdownM > 0) { --valveTurndownCountdownM; }", and likewise
\* for valveTurnupCountdownM.
tickCountdown(c) == IF c > 0 THEN c - 1 ELSE c

\* Mutant of cumulativeMovementAfter: only opening moves are added.
cumulativeMovementAfterOpeningOnly(cumulative, valvePCOpen, newValvePC) ==
  IF newValvePC > valvePCOpen THEN U16(cumulative + (newValvePC - valvePCOpen))
  ELSE cumulative

\* "cumulativeMovementPC += ..." of the branch taken when the valve is changed.
cumulativeMovementAfter(cumulative, valvePCOpen, newValvePC) ==
  IF newValvePC > valvePCOpen THEN U16(cumulative + (newValvePC - valvePCOpen))
  ELSE U16(cumulative + (valvePCOpen - newValvePC))

\* The bound names stand for the locals of tick(); each is computed once.
tick(in) ==
  \E rawTempC16 \in {in.refTempC16 - refTempOffsetC16} :
  \E hist \in {shiftInRaw(prevRawTempC16, initialised, rawTempC16)} :
  \E filtering \in {updateFiltering(isFiltering, hist, rawTempC16)} :
  \E turndown \in {tickCountdown(valveTurndownCountdownM)} :
  \E turnup \in {tickCountdown(valveTurnupCountdownM)} :
  \E newPC \in {computeRequiredTRVPercentOpen(
                  value, in, RetainedState(filtering, hist, turndown, turnup))} :
  \E changed \in {newPC # value} :
     /\ inputState' = in
     /\ initialised' = TRUE
     /\ prevRawTempC16' = hist
     /\ isFiltering' = filtering
     /\ valveTurnupCountdownM' =
          IF changed /\ newPC > value
            THEN DEFAULT_ANTISEEK_VALVE_RECLOSE_DELAY_M ELSE turnup
     /\ valveTurndownCountdownM' =
          IF changed /\ ~(newPC > value)
            THEN DEFAULT_ANTISEEK_VALVE_REOPEN_DELAY_M ELSE turndown
     /\ cumulativeMovementPC' =
          IF changed THEN cumulativeMovementAfter(cumulativeMovementPC, value, newPC)
                     ELSE cumulativeMovementPC
     /\ value' = newPC
     /\ valveMoved' = changed

(***************************************************************************)
(* Mode (lines 40-75), occupancy tracker (lines 296-350) and target        *)
(* temperature policy (computeTargetTemp).  e is the record of what the    *)
(* collaborators return during one call: the stored targets eeWarmC and    *)
(* eeFrostC, the schedule, the UI, the ambient light and the occupancy     *)
(* statistics.                                                             *)
(***************************************************************************)
inWarmMode == isWarmMode

inBakeMode == isWarmMode /\ bakeCountdownM # 0

\* getFROSTTargetC() of a unit with settable targets.
getFROSTTargetC(e) ==
  IF e.eeFrostC < MIN_TARGET_C \/ e.eeFrostC > MAX_TARGET_C THEN FROST ELSE e.eeFrostC

\* getWARMTargetC() of a unit with settable targets.
getWARMTargetC(e) ==
  IF e.eeWarmC < MIN_TARGET_C \/ e.eeWarmC > MAX_TARGET_C
    THEN fnmax(WARM, getFROSTTargetC(e))
    ELSE fnmax(e.eeWarmC, getFROSTTargetC(e))

TEMP_SCALE_MID == (BIASECO_WARM + BIASCOM_WARM + 1) \div 2

hasEcoBias(e) == getWARMTargetC(e) <= TEMP_SCALE_MID

isEcoTemperature(tempC) == tempC <= BIASECO_WARM

isLikelyOccupied == occupationCountdownM # 0

isLikelyUnoccupied == ~isLikelyOccupied

longVacant == vacancyH > longVacantHThrH

longLongVacant == vacancyH > longLongVacantHThrH

\* The percentage computed by OccupancyTracker::read() (OCCCP_SHIFT is 1).
occupancyConfidence(countdownM) ==
  IF countdownM = 0 THEN 0
  ELSE fnmin(U8(100 - U8((OCCUPATION_TIMEOUT_M - countdownM) * 2)), 100)

\* Mutant of bakeTarget: the uplift is not capped at MAX_TARGET_C.
bakeTargetUncapped(wt) == U8(wt + BAKE_UPLIFT)

\* "If in BAKE mode then use elevated target."
bakeTarget(wt) == fnmin(U8(wt + BAKE_UPLIFT), MAX_TARGET_C)

notLikelyOccupiedSoon(e) ==
  longLongVacant \/ (isLikelyUnoccupied /\ e.inBottomQuartileOcc)

\* Mutant of canSetBack: an active WARM schedule or recent UI use does not stop
\* the setback.
canSetBackWhateverScheduleAndUI(e) ==
  (longLongVacant \/ longVacant) \/ notLikelyOccupiedSoon(e) \/ e.darkOver10M

\* The condition under which WARM mode sets the target back.
canSetBack(e) ==
  (longLongVacant \/ longVacant) \/
  ((notLikelyOccupiedSoon(e) \/ e.darkOver10M)
     /\ ~e.scheduleOnWARMNow /\ ~e.recentUIControlUse)

\* Mutant of setbackOf: long long vacancy earns the eco setback only.
setbackOfNeverFull(e) ==
  IF ~hasEcoBias(e) \/ isLikelyOccupied
     \/ (~longLongVacant /\ e.isRoomLit)
     \/ (~longLongVacant /\ e.inTopQuartileOcc)
     \/ (~(longLongVacant \/ longVacant) /\ e.scheduleOnWARMSoon)
    THEN SETBACK_DEFAULT
    ELSE SETBACK_ECO

\* The setback tier.
setbackOf(e) ==
  IF ~hasEcoBias(e) \/ isLikelyOccupied
     \/ (~longLongVacant /\ e.isRoomLit)
     \/ (~longLongVacant /\ e.inTopQuartileOcc)
     \/ (~(longLongVacant \/ longVacant) /\ e.scheduleOnWARMSoon)
    THEN SETBACK_DEFAULT
    ELSE IF longLongVacant \/ (notLikelyOccupiedSoon(e) /\ isEcoTemperature(getWARMTargetC(e)))
      THEN SETBACK_FULL
      ELSE SETBACK_ECO

\* Mutant of setbackTarget: no floor at the FROST target.
setbackTargetNoFloor(wt, setback, frostC) == U8(wt - setback)

\* "Target must never be set low enough to create a frost/freeze hazard."
setbackTarget(wt, setback, frostC) == fnmax(U8(wt - setback), frostC)

\* The FROST-mode branch, with its pre-warm ahead of a scheduled WARM.
frostModeTarget(e) ==
  LET frostC == getFROSTTargetC(e)
      warmTarget == getWARMTargetC(e)
      preWarmTempC ==
        fnmax(U8(warmTarget - (IF hasEcoBias(e) THEN SETBACK_ECO ELSE SETBACK_DEFAULT)),
              frostC)
  IN IF ~longVacant /\ e.scheduleOnWARMSoon /\ ~e.recentUIControlUse
        /\ frostC < preWarmTempC /\ ~isEcoTemperature(warmTarget)
       THEN preWarmTempC ELSE frostC

computeTargetTemp(e) ==
  IF ~inWarmMode THEN frostModeTarget(e)
  ELSE IF inBakeMode THEN bakeTarget(getWARMTargetC(e))
  ELSE IF canSetBack(e)
    THEN setbackTarget(getWARMTargetC(e), setbackOf(e), getFROSTTargetC(e))
    ELSE getWARMTargetC(e)

(***************************************************************************)
(* Input states and starting states.                                       *)
(***************************************************************************)
\* The input states with target t (C), reference temperature 16 * t + o (C16),
\* <<minPCOpen, maxPCOpen>> in minmax and
\* <<glacial, inBakeMode, hasEcoBias, widenDeadband>> in flags.
InputStates(targets, offsets, minmax, flags) ==
  { [targetTempC |-> t, refTempC16 |-> 16 * t + o,
     minPCOpen |-> mm[1], maxPCOpen |-> mm[2],
     glacial |-> f[1], inBakeMode |-> f[2],
     hasEcoBias |-> f[3], widenDeadband |-> f[4]] :
    t \in targets, o \in offsets, mm \in minmax, f \in flags }

AllFlags == BOOLEAN \X BOOLEAN \X BOOLEAN \X BOOLEAN

\* inputState of a ModelledRadValve before its first computeTargetTemperature().
NoInput ==
  [targetTempC |-> 0, refTempC16 |-> 0, minPCOpen |-> 0, maxPCOpen |-> 0,
   glacial |-> FALSE, inBakeMode |-> FALSE, hasEcoBias |-> FALSE,
   widenDeadband |-> FALSE]

\* A raw temperature history: latest reading r0, every older reading r0 + older.
History(r0, older) == [i \in 1..FilterLength |-> IF i = 1 THEN r0 ELSE r0 + older]

\* The collaborators' readings before any call of computeTargetTemp(): nothing
\* scheduled, no UI use, stored targets unset.
NoEnv ==
  [eeWarmC |-> EE_UNSET, eeFrostC |-> EE_UNSET,
   scheduleOnWARMSoon |-> FALSE, scheduleOnWARMNow |-> FALSE,
   recentUIControlUse |-> FALSE, darkOver10M |-> FALSE, isRoomLit |-> FALSE,
   inBottomQuartileOcc |-> FALSE, inTopQuartileOcc |-> FALSE]

\* No sample and no overrun counted in this clock hour.
NoSamplesInHour == [full |-> 0, sub |-> 0, overran |-> FALSE]

\* The main loop before setup().
LoopVarsInit ==
  /\ looping = FALSE
  /\ TIME_LSD = 0
  /\ rtcMinutes = 0
  /\ rtcHours = 0
  /\ minuteCount = 0
  /\ samplesInHour = NoSamplesInHour
  /\ hoursRun = 0
  /\ overruns = 0
  /\ loopTicks = 0
  /\ minBoilerOnMinutes = 0
  /\ boilerCountdownTicks = 0
  /\ boilerNoCallM = 0
  /\ heatCallOut = FALSE
  /\ valveReallyOpen = FALSE
  /\ ticksSinceHeard = -1

\* An erased EEPROM stats area, and no stats call made yet.
StatsInit ==
  /\ eeStatsSet = [hh \in 1..24 |-> 255]
  /\ quartileQuery = <<>>
  /\ smoothCall = <<>>
  /\ sampleCount_ = 0
  /\ statsTotals = [ambLight |-> 0, tempC16 |-> 0, occpc |-> 0]
  /\ eeStats = [set \in {"temp", "ambLight", "occpc"} |->
                 [last |-> [hh \in 0..23 |-> 255], smoothed |-> [hh \in 0..23 |-> 255]]]
  /\ statsUpdate = <<>>
  /\ statsSamplesTaken = 0
  /\ warmCount = 0
  /\ eeWarmHistory = [hh \in 0..23 |-> 255]
  /\ codecCall = <<>>
  /\ zapCall = <<>>
  /\ LoopVarsInit

\* The fields of an OccupancyTracker.
Tracker(countdownM, vacM, vacH, activityM, confidence) ==
  [occupationCountdownM |-> countdownM, vacancyM |-> vacM, vacancyH |-> vacH,
   activityCountdownM |-> activityM, value |-> confidence]

\* The state outside the valve, the mode, the occupancy tracker and the target
\* policy, after start-up.
AuxInit ==
  /\ callingForHeat = FALSE
  /\ tempPotAvailable = FALSE
  /\ tempPot = 0
  /\ rhHigh = FALSE
  /\ readsSinceMark = 0
  /\ readPC = "idle"
  /\ irq = "none"
  /\ occAtStart = Tracker(0, 0, 0, 0, 0)
  /\ StatsInit

\* The parts of the state that the valve specifications leave alone.
RestInit ==
  /\ isWarmMode = FALSE
  /\ bakeCountdownM = 0
  /\ occupationCountdownM = 0
  /\ vacancyM = 0
  /\ vacancyH = 0
  /\ activityCountdownM = 0
  /\ occupancyValue = 0
  /\ env = NoEnv
  /\ newTarget = 0
  /\ AuxInit

(***************************************************************************)
(* SpecStep: one tick() from every valve position and a spread of retained *)
(* states (hysteresis countdowns pending or not, filter on or off, raw     *)
(* temperature steady, rising or falling), under every input state of      *)
(* StepInputs.                                                             *)
(***************************************************************************)
StepTarget == 20

\* Offsets of the reference temperature from the bottom of the target degree:
\* well below, the degree below, five points of the target degree, the degree
\* above, well above.
StepOffsets == {-40, -1, 0, 5, 9, 13, 15, 16, 40}

StepMinMax == {<<10, 100>>, <<20, 60>>, <<5, 8>>}

StepInputs == InputStates({StepTarget}, StepOffsets, StepMinMax, AllFlags)

\* Offsets of the latest raw reading held before the tick.
StepHistoryOffsets == {-40, 0, 15, 40}

StepInit ==
  /\ value \in 0..100
  /\ inputState = NoInput
  /\ isFiltering \in BOOLEAN
  /\ prevRawTempC16 \in
       { History(16 * StepTarget + o - refTempOffsetC16, older) :
           o \in StepHistoryOffsets, older \in {-1, 0, 1} }
  /\ initialised = TRUE
  /\ valveTurndownCountdownM \in {0, DEFAULT_ANTISEEK_VALVE_REOPEN_DELAY_M}
  /\ valveTurnupCountdownM \in {0, DEFAULT_ANTISEEK_VALVE_RECLOSE_DELAY_M}
  /\ cumulativeMovementPC = 0
  /\ valveMoved = FALSE
  /\ RestInit

\* The first tick() on the drawn state.
StepTick ==
  /\ inputState = NoInput
  /\ \E in \in StepInputs : tick(in)
  /\ UNCHANGED <<modeVars, occupancyVars, targetVars, auxVars>>

StepNext == StepTick

SpecStep == StepInit /\ [][StepNext]_vars

(***************************************************************************)
(* Spec: the valve from construction, one tick() per minute, under input   *)
(* states drawn afresh for every tick.  Behaviours are followed until the  *)
(* valve has travelled more than MaxMovementPC percent in total.           *)
(***************************************************************************)
MaxMovementPC == 12

TickTarget == 20

\* Well below target, just over target, and just over target after a jump.
TickOffsets == {-40, 16, 24}

TickMinMax == {<<5, 8>>, <<10, 100>>}

\* Not glacial, not BAKE, narrow deadband; comfort or eco bias.
TickFlags == {<<FALSE, FALSE, eco, FALSE>> : eco \in BOOLEAN}

TickInputs == InputStates({TickTarget}, TickOffsets, TickMinMax, TickFlags)

\* ModelledRadValve and its ModelledRadValveState as constructed.
Init ==
  /\ value = 0
  /\ inputState = NoInput
  /\ isFiltering = FALSE
  /\ prevRawTempC16 = [i \in 1..FilterLength |-> 0]
  /\ initialised = FALSE
  /\ valveTurndownCountdownM = 0
  /\ valveTurnupCountdownM = 0
  /\ cumulativeMovementPC = 0
  /\ valveMoved = FALSE
  /\ RestInit

Tick ==
  /\ cumulativeMovementPC <= MaxMovementPC
  /\ \E in \in TickInputs : tick(in)
  /\ UNCHANGED <<modeVars, occupancyVars, targetVars, auxVars>>

Next == Tick

Spec == Init /\ [][Next]_vars

(***************************************************************************)
(* SpecStartUp: the first tick() after construction, for every first       *)
(* reading from 30 C below the target to 30 C above it.                    *)
(***************************************************************************)
StartUpTargetC == 20

StartUpOffsets == (0 - 480)..480

\* Plain, and BAKE with eco bias and a wide deadband.
StartUpFlags == {<<FALSE, FALSE, FALSE, FALSE>>, <<FALSE, TRUE, TRUE, TRUE>>}

StartUpInputs ==
  InputStates({StartUpTargetC}, StartUpOffsets,
              {<<DEFAULT_MIN_VALVE_PC_REALLY_OPEN, 100>>}, StartUpFlags)

StartUpTick ==
  /\ ~initialised
  /\ \E in \in StartUpInputs : tick(in)
  /\ UNCHANGED <<modeVars, occupancyVars, targetVars, auxVars>>

StartUpNext == StartUpTick

SpecStartUp == Init /\ [][StartUpNext]_vars

(***************************************************************************)
(* SpecHunt: the valve from construction, one tick() per minute, with the  *)
(* temperature, the valve limits and the mode drawn afresh for every tick: *)
(* below, at and above the target, steady or jumping, in and out of BAKE.  *)
(* Behaviours are followed until the valve has travelled more than         *)
(* MaxHuntMovementPC percent in total.                                     *)
(***************************************************************************)
MaxHuntMovementPC == 11

HuntTargetC == 20

\* Well below target twice (2/16 apart), in the target degree and well over
\* the target.
HuntOffsets == {-40, -38, 8, 40}

HuntMinMax == {<<10, 100>>, <<5, 8>>}

\* Plain, and BAKE.
HuntFlags == {<<FALSE, FALSE, FALSE, FALSE>>, <<FALSE, TRUE, FALSE, FALSE>>}

HuntInputs == InputStates({HuntTargetC}, HuntOffsets, HuntMinMax, HuntFlags)

HuntTick ==
  /\ cumulativeMovementPC <= MaxHuntMovementPC
  /\ \E in \in HuntInputs : tick(in)
  /\ UNCHANGED <<modeVars, occupancyVars, targetVars, auxVars>>

HuntNext == HuntTick

SpecHunt == Init /\ [][HuntNext]_vars

(***************************************************************************)
(* SpecLinger: the temperature stays more than one degree above the        *)
(* target.  Every reading, in the history held at the start and in every   *)
(* tick, is well over the target; the valve limits are those of the first  *)
(* tick, the eco bias and the deadband are read afresh every minute.       *)
(* Behaviours are followed until the valve has travelled more than         *)
(* MaxLingerMovementPC percent in total.                                   *)
(***************************************************************************)
MaxLingerMovementPC == 100

LingerTargetC == 20

\* Two and a half degrees over the target, and a jump of 4/16 from there.
LingerOffsets == {40, 44}

\* Limits with minPCOpen above, just above and at DEFAULT_MAX_RUN_ON_TIME_M.
LingerMinMax == {<<DEFAULT_MIN_VALVE_PC_REALLY_OPEN, 100>>,
                 <<DEFAULT_MAX_RUN_ON_TIME_M + 2, 100>>,
                 <<DEFAULT_MAX_RUN_ON_TIME_M, 8>>}

\* Not glacial, not BAKE; comfort or eco bias, narrow or wide deadband.
LingerFlags == {<<FALSE, FALSE, eco, wide>> : eco \in BOOLEAN, wide \in BOOLEAN}

LingerStartValves == {4, 6, 9, 10, 20, 100}

LingerInputs ==
  InputStates({LingerTargetC}, LingerOffsets, LingerMinMax, LingerFlags)

LingerInit ==
  /\ value \in LingerStartValves
  /\ inputState = NoInput
  /\ isFiltering \in BOOLEAN
  /\ prevRawTempC16 \in
       { History(16 * LingerTargetC + o - refTempOffsetC16, 0) : o \in LingerOffsets }
  /\ initialised = TRUE
  /\ valveTurndownCountdownM = 0
  /\ valveTurnupCountdownM \in {0, DEFAULT_ANTISEEK_VALVE_RECLOSE_DELAY_M}
  /\ cumulativeMovementPC = 0
  /\ valveMoved = FALSE
  /\ RestInit

LingerTick ==
  /\ cumulativeMovementPC <= MaxLingerMovementPC
  /\ \E in \in LingerInputs :
       /\ inputState # NoInput =>
            /\ in.minPCOpen = inputState.minPCOpen
            /\ in.maxPCOpen = inputState.maxPCOpen
       /\ tick(in)
  /\ UNCHANGED <<modeVars, occupancyVars, targetVars, auxVars>>

LingerNext == LingerTick

SpecLinger == LingerInit /\ [][LingerNext]_vars /\ WF_vars(LingerTick)

(***************************************************************************)
(* SpecColdRoom: the cold-room scenario.  Target ColdRoomTargetC, the      *)
(* reference temperature held within a few sixteenths of ColdRoomRefC (so  *)
(* the filter stays off), valve starting at 0 with no hysteresis pending,  *)
(* not BAKE, not glacial, comfort bias, minPCOpen 10 and maxPCOpen 100.    *)
(***************************************************************************)
ColdRoomTargetC == 21

ColdRoomRefC == 18

ColdRoomJitterC16 == {0, 1, 2}

ColdRoomInputs ==
  { [targetTempC |-> ColdRoomTargetC, refTempC16 |-> 16 * ColdRoomRefC + j,
     minPCOpen |-> 10, maxPCOpen |-> 100,
     glacial |-> FALSE, inBakeMode |-> FALSE, hasEcoBias |-> FALSE,
     widenDeadband |-> w] : j \in ColdRoomJitterC16, w \in BOOLEAN }

ColdRoomInit ==
  /\ value = 0
  /\ inputState = NoInput
  /\ isFiltering = FALSE
  /\ initialised \in BOOLEAN
  /\ prevRawTempC16 =
       IF initialised THEN History(16 * ColdRoomRefC - refTempOffsetC16, 0)
                      ELSE [i \in 1..FilterLength |-> 0]
  /\ valveTurndownCountdownM = 0
  /\ valveTurnupCountdownM = 0
  /\ cumulativeMovementPC = 0
  /\ valveMoved = FALSE
  /\ RestInit

ColdRoomTick ==
  /\ \E in \in ColdRoomInputs : tick(in)
  /\ UNCHANGED <<modeVars, occupancyVars, targetVars, auxVars>>

ColdRoomNext == ColdRoomTick

SpecColdRoom == ColdRoomInit /\ [][ColdRoomNext]_vars

(***************************************************************************)
(* SpecOscillate: the reference temperature alternates on every tick       *)
(* between the two values of one pair of OscPairs, each pair straddling a  *)
(* boundary of the target degree; the flags and valve limits are those of  *)
(* the first tick.  Behaviours are followed until the valve has travelled  *)
(* more than MaxOscMovementPC percent in total.                            *)
(***************************************************************************)
MaxOscMovementPC == 250

OscTargetC == 20

\* Offsets <<lo, hi>> from the bottom of the target degree: one sixteenth across
\* its lower edge, one sixteenth across its upper edge, half a degree either side
\* of the lower edge, and from just below the target degree to just above it.
OscPairs == {<<-1, 0>>, <<15, 16>>, <<-8, 8>>, <<-2, 17>>}

OscOffsets == {p[1] : p \in OscPairs} \cup {p[2] : p \in OscPairs}

\* The other value of the pair that the reference temperature r belongs to.
OscPartner(r) ==
  LET o == r - 16 * OscTargetC
      p == CHOOSE q \in OscPairs : o = q[1] \/ o = q[2]
  IN 16 * OscTargetC + (IF o = p[1] THEN p[2] ELSE p[1])

OscMinMax == {<<10, 100>>, <<5, 8>>}

OscInputs == InputStates({OscTargetC}, OscOffsets, OscMinMax, AllFlags)

OscInit ==
  /\ value \in {0, 50, 100}
  /\ inputState = NoInput
  /\ isFiltering = FALSE
  /\ prevRawTempC16 = [i \in 1..FilterLength |-> 0]
  /\ initialised = FALSE
  /\ valveTurndownCountdownM = 0
  /\ valveTurnupCountdownM = 0
  /\ cumulativeMovementPC = 0
  /\ valveMoved = FALSE
  /\ RestInit

OscTick ==
  /\ cumulativeMovementPC <= MaxOscMovementPC
  /\ IF inputState = NoInput
       THEN \E in \in OscInputs : tick(in)
       ELSE tick([inputState EXCEPT !.refTempC16 = OscPartner(@)])
  /\ UNCHANGED <<modeVars, occupancyVars, targetVars, auxVars>>

OscNext == OscTick

SpecOscillate == OscInit /\ [][OscNext]_vars

(***************************************************************************)
(* SpecAbove: the temperature stays above the target.  Every reading, in   *)
(* the history held at the start and in every tick, is in the degree above *)
(* the target or higher; the flags and valve limits are those of the first *)
(* tick.  tick() runs once a minute; behaviours are followed until the     *)
(* valve has travelled more than MaxAboveMovementPC percent in total,      *)
(* several times what closing from fully open takes.                       *)
(***************************************************************************)
MaxAboveMovementPC == 600

AboveTargetC == 20

\* Just over the target, and well over it (a jump that turns the filter on).
AboveOffsets == {16, 40}

AboveMinMax == {<<10, 100>>, <<5, 8>>}

AboveStartValves == {0, 1, 5, 9, 10, 11, 20, 33, 50, 100}

AboveInputs == InputStates({AboveTargetC}, AboveOffsets, AboveMinMax, AllFlags)

AboveInit ==
  /\ value \in AboveStartValves
  /\ inputState = NoInput
  /\ isFiltering \in BOOLEAN
  /\ prevRawTempC16 \in
       { History(16 * AboveTargetC + o - refTempOffsetC16, 0) : o \in AboveOffsets }
  /\ initialised = TRUE
  /\ valveTurndownCountdownM \in {0, DEFAULT_ANTISEEK_VALVE_REOPEN_DELAY_M}
  /\ valveTurnupCountdownM \in {0, DEFAULT_ANTISEEK_VALVE_RECLOSE_DELAY_M}
  /\ cumulativeMovementPC = 0
  /\ valveMoved = FALSE
  /\ RestInit

AboveTick ==
  /\ cumulativeMovementPC <= MaxAboveMovementPC
  /\ \E in \in AboveInputs :
       /\ inputState # NoInput =>
            in = [inputState EXCEPT !.refTempC16 = in.refTempC16]
       /\ tick(in)
  /\ UNCHANGED <<modeVars, occupancyVars, targetVars, auxVars>>

AboveNext == AboveTick

SpecAbove == AboveInit /\ [][AboveNext]_vars /\ WF_vars(AboveTick)

(***************************************************************************)
(* SpecTarget: one call of computeTargetTemp() in every mode, under every  *)
(* reading of TargetEnvs and a spread of occupancy tracker states: vacant  *)
(* for a time just short of a whole number of hours around the two         *)
(* thresholds, or occupied, then moved on by OccupancyTracker::read() and  *)
(* markAsPossiblyOccupied().                                               *)
(***************************************************************************)
\* Minutes of vacancy, short of the hour, that read() is followed over.
MaxVacancyReads == 2

\* Around the two thresholds, and at the value where vacancyH saturates.
VacancyHours == {0, longVacantHThrH, longVacantHThrH + 1,
                 longLongVacantHThrH, longLongVacantHThrH + 1, 255}

StoredWarmC == {MIN_TARGET_C, BIASECO_WARM, TEMP_SCALE_MID, TEMP_SCALE_MID + 1,
                MAX_TARGET_C}

StoredFrostC == {MIN_TARGET_C, BIASECO_WARM, MAX_TARGET_C, EE_UNSET}

TargetEnvs ==
  [eeWarmC : StoredWarmC, eeFrostC : StoredFrostC,
   scheduleOnWARMSoon : BOOLEAN, scheduleOnWARMNow : BOOLEAN,
   recentUIControlUse : BOOLEAN, darkOver10M : BOOLEAN, isRoomLit : BOOLEAN,
   inBottomQuartileOcc : BOOLEAN, inTopQuartileOcc : BOOLEAN]

\* computeTargetTemp() has been called (every target is at least MIN_TARGET_C).
Called == newTarget # 0

TargetInit ==
  /\ value = 0
  /\ inputState = NoInput
  /\ isFiltering = FALSE
  /\ prevRawTempC16 = [i \in 1..FilterLength |-> 0]
  /\ initialised = FALSE
  /\ valveTurndownCountdownM = 0
  /\ valveTurnupCountdownM = 0
  /\ cumulativeMovementPC = 0
  /\ valveMoved = FALSE
  /\ isWarmMode = FALSE
  /\ bakeCountdownM = 0
  /\ occupationCountdownM \in {0, OCCUPATION_TIMEOUT_1_M - 1, OCCUPATION_TIMEOUT_M - 1}
  /\ occupancyValue = occupancyConfidence(
                        IF occupationCountdownM = 0 THEN 0 ELSE occupationCountdownM + 1)
  /\ vacancyH \in IF occupationCountdownM = 0 THEN VacancyHours ELSE {0}
  /\ vacancyM = IF occupationCountdownM = 0 THEN 60 - MaxVacancyReads ELSE 0
  /\ activityCountdownM = 0
  /\ env = NoEnv
  /\ newTarget = 0
  /\ AuxInit

\* setWarmModeDebounced(warm): forcing FROST cancels any BAKE.
SetWarmModeDebounced ==
  /\ ~Called
  /\ \E warm \in BOOLEAN :
       /\ isWarmMode' = warm
       /\ bakeCountdownM' = IF ~warm THEN 0 ELSE bakeCountdownM
  /\ UNCHANGED <<valveVars, occupancyVars, targetVars, auxVars>>

StartBakeDebounced ==
  /\ ~Called
  /\ isWarmMode' = TRUE
  /\ bakeCountdownM' = BAKE_MAX_M
  /\ UNCHANGED <<valveVars, occupancyVars, targetVars, auxVars>>

\* OccupancyTracker::read(), once a minute.
OccupancyRead ==
  /\ ~Called
  /\ occupationCountdownM > 0 \/ vacancyM >= 60 - MaxVacancyReads
  /\ occupancyValue' = occupancyConfidence(occupationCountdownM)
  /\ IF occupationCountdownM > 0
       THEN /\ occupationCountdownM' = occupationCountdownM - 1
            /\ vacancyM' = 0
            /\ vacancyH' = 0
       ELSE /\ occupationCountdownM' = occupationCountdownM
            /\ IF vacancyH < 255
                 THEN IF vacancyM + 1 >= 60
                        THEN vacancyM' = 0 /\ vacancyH' = vacancyH + 1
                        ELSE vacancyM' = vacancyM + 1 /\ vacancyH' = vacancyH
                 ELSE vacancyM' = vacancyM /\ vacancyH' = vacancyH
  /\ activityCountdownM' = IF activityCountdownM > 0 THEN activityCountdownM - 1
                                                     ELSE activityCountdownM
  /\ UNCHANGED <<valveVars, modeVars, targetVars, auxVars>>

\* OccupancyTracker::markAsPossiblyOccupied().
MarkAsPossiblyOccupied ==
  /\ ~Called
  /\ occupationCountdownM' = fnmax(occupationCountdownM, OCCUPATION_TIMEOUT_1_M)
  /\ activityCountdownM' = 2
  /\ UNCHANGED <<vacancyM, vacancyH, occupancyValue, valveVars, modeVars, targetVars, auxVars>>

\* One call of computeTargetTemp() with the readings e.
ComputeTargetTemp ==
  /\ ~Called
  /\ \E e \in TargetEnvs :
       /\ env' = e
       /\ newTarget' = computeTargetTemp(e)
  /\ UNCHANGED <<valveVars, modeVars, occupancyVars, auxVars>>

TargetNext ==
  \/ SetWarmModeDebounced
  \/ StartBakeDebounced
  \/ OccupancyRead
  \/ MarkAsPossiblyOccupied
  \/ ComputeTargetTemp

SpecTarget == TargetInit /\ [][TargetNext]_vars

(***************************************************************************)
(* SpecHeat: the mode calls and ModelledRadValve::computeCallForHeat(),    *)
(* once a minute, from start-up.  Each call reads the collaborators        *)
(* afresh: the readings of HeatEnvs, a room temperature of HeatTempsC16,   *)
(* whether the room is dark, and the valve limits of HeatMinMax.           *)
(* Behaviours are followed until the valve has travelled more than         *)
(* MaxHeatMovementPC percent in total.                                     *)
(***************************************************************************)
MaxHeatMovementPC == 110

\* A stored WARM target on the comfort side of the midpoint, in a lit room.
HeatEnvs == { [NoEnv EXCEPT !.eeWarmC = TEMP_SCALE_MID + 1, !.isRoomLit = TRUE] }

\* A cold room and a hot room.
HeatTempsC16 == {15 * 16, 30 * 16}

\* <<getMinPercentOpen(), getMaxPercentageOpenAllowed()>>.
HeatMinMax == {<<DEFAULT_MIN_VALVE_PC_REALLY_OPEN, 100>>}

\* setWarmModeDebounced(warm): the BAKE countdown it leaves.
bakeCountdownAfterSetWarmModeNoCancel(warm, countdown) == countdown

bakeCountdownAfterSetWarmMode(warm, countdown) == IF ~warm THEN 0 ELSE countdown

setWarmModeDebounced(warm) ==
  /\ isWarmMode' = warm
  /\ bakeCountdownM' = bakeCountdownAfterSetWarmMode(warm, bakeCountdownM)

cancelBakeDebounced ==
  /\ bakeCountdownM' = 0
  /\ UNCHANGED isWarmMode

startBakeDebounced ==
  /\ isWarmMode' = TRUE
  /\ bakeCountdownM' = BAKE_MAX_M

\* Mutant of bakeCountdownAfterCall: the BAKE timer does not run down.
bakeCountdownAfterCallNoRunDown(calling, countdown) ==
  IF ~calling THEN 0 ELSE countdown

\* The ATOMIC_BLOCK at the head of computeCallForHeat(): BAKE is cancelled once
\* the valve has stopped calling for heat, else its timer runs down.
bakeCountdownAfterCall(calling, countdown) ==
  IF ~calling THEN 0
  ELSE IF countdown > 0 THEN countdown - 1 ELSE countdown

\* Mutant of computeTargetTemperature: inBakeMode() as it was on entry to
\* computeCallForHeat().
computeTargetTemperatureStaleBake(target, bakeMode, e, tempC16, roomDark, mm) ==
  [targetTempC |-> target, refTempC16 |-> tempC16 + refTempOffsetC16,
   minPCOpen |-> mm[1], maxPCOpen |-> mm[2],
   glacial |-> FALSE, inBakeMode |-> inBakeMode,
   hasEcoBias |-> hasEcoBias(e),
   widenDeadband |-> roomDark \/ longVacant \/ ~inWarmMode \/ isFiltering]

\* The input state set up by computeTargetTemperature() from the target just
\* computed, inBakeMode() and the collaborators' readings; glacial is off.
computeTargetTemperature(target, bakeMode, e, tempC16, roomDark, mm) ==
  [targetTempC |-> target, refTempC16 |-> tempC16 + refTempOffsetC16,
   minPCOpen |-> mm[1], maxPCOpen |-> mm[2],
   glacial |-> FALSE, inBakeMode |-> bakeMode,
   hasEcoBias |-> hasEcoBias(e),
   widenDeadband |-> roomDark \/ longVacant \/ ~inWarmMode \/ isFiltering]

computeCallForHeat(e, tempC16, roomDark, mm) ==
  /\ bakeCountdownM' = bakeCountdownAfterCall(callingForHeat, bakeCountdownM)
  /\ UNCHANGED <<isWarmMode, occupancyVars>>
  /\ env' = e
  /\ newTarget' = computeTargetTemp(e)'
  /\ \E in \in {computeTargetTemperature(newTarget', inBakeMode', e, tempC16,
                                          roomDark, mm)} :
       /\ callingForHeat' = (in.targetTempC >= Shr4(in.refTempC16))
       /\ tick(in)

HeatInit ==
  /\ Init

HeatSetWarmModeDebounced ==
  /\ \E warm \in BOOLEAN : setWarmModeDebounced(warm)
  /\ UNCHANGED <<valveVars, occupancyVars, targetVars, auxVars>>

HeatStartBakeDebounced ==
  /\ startBakeDebounced
  /\ UNCHANGED <<valveVars, occupancyVars, targetVars, auxVars>>

HeatCancelBakeDebounced ==
  /\ cancelBakeDebounced
  /\ UNCHANGED <<valveVars, occupancyVars, targetVars, auxVars>>

HeatComputeCallForHeat ==
  /\ cumulativeMovementPC <= MaxHeatMovementPC
  /\ \E e \in HeatEnvs, tempC16 \in HeatTempsC16, roomDark \in BOOLEAN,
        mm \in HeatMinMax :
       computeCallForHeat(e, tempC16, roomDark, mm)
  /\ UNCHANGED <<dialVars, raceVars, statsVars>>

HeatNext ==
  \/ HeatSetWarmModeDebounced
  \/ HeatStartBakeDebounced
  \/ HeatCancelBakeDebounced
  \/ HeatComputeCallForHeat

SpecHeat == HeatInit /\ [][HeatNext]_vars

(***************************************************************************)
(* SpecBake: BAKE from start-up.  The mode calls, computeCallForHeat()     *)
(* once a minute, and the extra computeTargetTemperature() that the main   *)
(* loop forces after use of the UI (lines 1963-1967), in any order.  The   *)
(* room is between the WARM target and the BAKE target, or hot.            *)
(* Behaviours are followed until the valve has travelled more than         *)
(* MaxBakeMovementPC percent in total.                                     *)
(***************************************************************************)
MaxBakeMovementPC == 40

\* A room two degrees over the stored WARM target (and under the BAKE target),
\* and a hot room.
BakeTempsC16 == {(TEMP_SCALE_MID + 3) * 16, 30 * 16}

\* <<getMinPercentOpen(), getMaxPercentageOpenAllowed()>>.
BakeMinMax == {<<DEFAULT_MIN_VALVE_PC_REALLY_OPEN, 2 * DEFAULT_MIN_VALVE_PC_REALLY_OPEN>>}

\* The main loop's "Force immediate recompute of target temperature for (UI)
\* responsiveness": computeTargetTemperature() on its own, without the BAKE
\* countdown and without tick().
forcedComputeTargetTemperature(e, tempC16, roomDark, mm) ==
  /\ env' = e
  /\ newTarget' = computeTargetTemp(e)
  /\ inputState' = computeTargetTemperature(newTarget', inBakeMode, e, tempC16,
                                            roomDark, mm)
  /\ callingForHeat' = (inputState'.targetTempC >= Shr4(inputState'.refTempC16))
  /\ UNCHANGED <<value, isFiltering, prevRawTempC16, initialised,
                 valveTurndownCountdownM, valveTurnupCountdownM,
                 cumulativeMovementPC, valveMoved>>
  /\ UNCHANGED <<modeVars, occupancyVars>>

BakeInit ==
  /\ Init

BakeSetWarmModeDebounced ==
  /\ \E warm \in BOOLEAN : setWarmModeDebounced(warm)
  /\ UNCHANGED <<valveVars, occupancyVars, targetVars, auxVars>>

BakeStartBakeDebounced ==
  /\ startBakeDebounced
  /\ UNCHANGED <<valveVars, occupancyVars, targetVars, auxVars>>

BakeCancelBakeDebounced ==
  /\ cancelBakeDebounced
  /\ UNCHANGED <<valveVars, occupancyVars, targetVars, auxVars>>

BakeForcedComputeTargetTemperature ==
  /\ \E e \in HeatEnvs, tempC16 \in BakeTempsC16, mm \in BakeMinMax :
       forcedComputeTargetTemperature(e, tempC16, FALSE, mm)
  /\ UNCHANGED <<dialVars, raceVars, statsVars>>

BakeComputeCallForHeat ==
  /\ cumulativeMovementPC <= MaxBakeMovementPC
  /\ \E e \in HeatEnvs, tempC16 \in BakeTempsC16, mm \in BakeMinMax :
       computeCallForHeat(e, tempC16, FALSE, mm)
  /\ UNCHANGED <<dialVars, raceVars, statsVars>>

BakeNext ==
  \/ BakeSetWarmModeDebounced
  \/ BakeStartBakeDebounced
  \/ BakeCancelBakeDebounced
  \/ BakeForcedComputeTargetTemperature
  \/ BakeComputeCallForHeat

SpecBake == BakeInit /\ [][BakeNext]_vars

(***************************************************************************)
(* SpecTargets: the FROST and WARM targets of a unit with settable         *)
(* targets, with or without a temperature dial (TEMP_POT_AVAILABLE), under *)
(* setFROSTTargetC(), setWARMTargetC(), turns of the dial and changes of   *)
(* humidity.  env holds the two stored bytes.  Without a dial the stored   *)
(* bytes start at any value of StoredFrostC and StoredWarmC; with a dial   *)
(* they start erased, and only setFROSTTargetC() writes them.              *)
(***************************************************************************)
TEMP_SCALE_MIN == BIASECO_WARM - 1

TEMP_SCALE_MAX == BIASCOM_WARM + 1

\* "for(uint8_t ppot = band<<1; ppot < pot; ++result) { ppot += band; }"
RECURSIVE warmTargetByBand(_, _, _, _)
warmTargetByBand(ppot, pot, band, result) ==
  IF ppot < pot THEN warmTargetByBand(U8(ppot + band), pot, band, U8(result + 1))
  ELSE result

computeWARMTargetC(pot) ==
  LET range == U8(TEMP_SCALE_MAX - TEMP_SCALE_MIN + 1)
      band == 256 \div range
  IN IF pot >= 256 - band THEN TEMP_SCALE_MAX
     ELSE IF pot < band THEN TEMP_SCALE_MIN
     ELSE IF range < 10
       THEN warmTargetByBand(U8(band * 2), pot, band, TEMP_SCALE_MIN + 1)
     ELSE (pot \div band) + TEMP_SCALE_MIN

\* getWARMTargetC() of a unit with a dial; the cached result is that of
\* computeWARMTargetC() for the current dial position.
getWARMTargetCFromPot(pot) == computeWARMTargetC(pot)

\* getFROSTTargetC() of a unit with a dial and settable targets.
getFROSTTargetCWithPot(e, pot, rh) ==
  LET result == IF ~(getWARMTargetCFromPot(pot) <= TEMP_SCALE_MID) \/ rh
                  THEN BIASCOM_FROST ELSE BIASECO_FROST
      stored == e.eeFrostC
  IN IF stored >= MIN_TARGET_C /\ stored <= MAX_TARGET_C /\ stored > result
       THEN stored ELSE result

\* getFROSTTargetC() and getWARMTargetC() as the build defines them.
frostTargetC == IF tempPotAvailable THEN getFROSTTargetCWithPot(env, tempPot, rhHigh)
                ELSE getFROSTTargetC(env)

warmTargetC == IF tempPotAvailable THEN getWARMTargetCFromPot(tempPot)
               ELSE getWARMTargetC(env)

\* Requested targets: out of range, the limits, and around the dial's scale.
SetTempsC == {0, MIN_TARGET_C - 1, MIN_TARGET_C, BIASCOM_FROST, TEMP_SCALE_MIN,
              BIASECO_WARM, TEMP_SCALE_MAX, TEMP_SCALE_MAX + 1, MAX_TARGET_C,
              MAX_TARGET_C + 1, 255}

\* Dial positions: the ends, and either side of the edges of the bands.
PotPositions == {0, 35, 36, 72, 73, 108, 109, 180, 181, 219, 220, 255}

TargetsInit ==
  /\ value = 0
  /\ inputState = NoInput
  /\ isFiltering = FALSE
  /\ prevRawTempC16 = [i \in 1..FilterLength |-> 0]
  /\ initialised = FALSE
  /\ valveTurndownCountdownM = 0
  /\ valveTurnupCountdownM = 0
  /\ cumulativeMovementPC = 0
  /\ valveMoved = FALSE
  /\ isWarmMode = FALSE
  /\ bakeCountdownM = 0
  /\ occupationCountdownM = 0
  /\ vacancyM = 0
  /\ vacancyH = 0
  /\ activityCountdownM = 0
  /\ occupancyValue = 0
  /\ newTarget = 0
  /\ callingForHeat = FALSE
  /\ tempPotAvailable \in BOOLEAN
  /\ tempPot \in IF tempPotAvailable THEN PotPositions ELSE {0}
  /\ rhHigh = FALSE
  /\ readsSinceMark = 0
  /\ readPC = "idle"
  /\ irq = "none"
  /\ occAtStart = Tracker(0, 0, 0, 0, 0)
  /\ StatsInit
  /\ env \in IF tempPotAvailable THEN {NoEnv}
             ELSE { [NoEnv EXCEPT !.eeFrostC = f, !.eeWarmC = w] :
                      f \in StoredFrostC, w \in StoredWarmC }

\* setFROSTTargetC(tempC): rejected out of range or above the WARM target.
SetFROSTTargetC ==
  /\ \E tempC \in SetTempsC :
       env' = IF tempC < MIN_TARGET_C \/ tempC > MAX_TARGET_C \/ tempC > warmTargetC
                THEN env ELSE [env EXCEPT !.eeFrostC = tempC]
  /\ UNCHANGED <<valveVars, modeVars, occupancyVars, newTarget, auxVars>>

\* setWARMTargetC(tempC), which only a unit without a dial has: rejected out of
\* range or below the FROST target.
SetWARMTargetC ==
  /\ ~tempPotAvailable
  /\ \E tempC \in SetTempsC :
       env' = IF tempC < MIN_TARGET_C \/ tempC > MAX_TARGET_C \/ tempC < frostTargetC
                THEN env ELSE [env EXCEPT !.eeWarmC = tempC]
  /\ UNCHANGED <<valveVars, modeVars, occupancyVars, newTarget, auxVars>>

\* The user turns the dial.
TurnDial ==
  /\ tempPotAvailable
  /\ \E pot \in PotPositions : tempPot' = pot
  /\ UNCHANGED <<valveVars, modeVars, occupancyVars, targetVars, callingForHeat,
                 tempPotAvailable, rhHigh, raceVars, statsVars>>

\* The relative humidity crosses its threshold.
HumidityChange ==
  /\ tempPotAvailable
  /\ rhHigh' = ~rhHigh
  /\ UNCHANGED <<valveVars, modeVars, occupancyVars, targetVars, callingForHeat,
                 tempPotAvailable, tempPot, raceVars, statsVars>>

TargetsNext ==
  \/ SetFROSTTargetC
  \/ SetWARMTargetC
  \/ TurnDial
  \/ HumidityChange

SpecTargets == TargetsInit /\ [][TargetsNext]_vars

(***************************************************************************)
(* The occupancy tracker as operators on its fields, statement by          *)
(* statement, so that OccupancyTracker::read() and                         *)
(* markAsPossiblyOccupied() can be run whole or interleaved.               *)
(***************************************************************************)
\* The tracker's fields as they stand.
occ == Tracker(occupationCountdownM, vacancyM, vacancyH, activityCountdownM,
               occupancyValue)

\* Mutant of readValue: the confidence is computed with OCCCP_SHIFT 2, the shift
\* of an OCCUPATION_TIMEOUT_M of at most 25.
readValueShift2(o) ==
  [o EXCEPT !.value =
     IF o.occupationCountdownM = 0 THEN 0
     ELSE fnmin(U8(100 - U8((OCCUPATION_TIMEOUT_M - o.occupationCountdownM) * 4)),
                100)]

\* Mutant of readValue: the stored confidence is left alone once the countdown
\* has run out.
readValueKeptWhenVacant(o) ==
  IF o.occupationCountdownM = 0 THEN o
  ELSE [o EXCEPT !.value = occupancyConfidence(o.occupationCountdownM)]

\* "value = newValue": the confidence, from the countdown found on entry.
readValue(o) == [o EXCEPT !.value = occupancyConfidence(o.occupationCountdownM)]

\* Mutant of readCountdown: a running occupation countdown does not zero the
\* vacancy time.
readCountdownVacancyKept(o) ==
  IF o.occupationCountdownM > 0
    THEN [o EXCEPT !.occupationCountdownM = @ - 1]
  ELSE IF o.vacancyH < 255
    THEN IF U8(o.vacancyM + 1) >= 60
           THEN [o EXCEPT !.vacancyM = 0, !.vacancyH = U8(@ + 1)]
           ELSE [o EXCEPT !.vacancyM = U8(@ + 1)]
  ELSE o

\* "Run down occupation timer (or run up vacancy time) if need be."
readCountdown(o) ==
  IF o.occupationCountdownM > 0
    THEN [o EXCEPT !.occupationCountdownM = @ - 1, !.vacancyM = 0, !.vacancyH = 0]
  ELSE IF o.vacancyH < 255
    THEN IF U8(o.vacancyM + 1) >= 60
           THEN [o EXCEPT !.vacancyM = 0, !.vacancyH = U8(@ + 1)]
           ELSE [o EXCEPT !.vacancyM = U8(@ + 1)]
  ELSE o

\* "Run down 'recent activity' timer."
readActivity(o) ==
  IF o.activityCountdownM > 0 THEN [o EXCEPT !.activityCountdownM = @ - 1] ELSE o

\* OccupancyTracker::read(), whole.
read(o) == readActivity(readCountdown(readValue(o)))

\* The ATOMIC_BLOCK of markAsPossiblyOccupied().
markCountdown(o) ==
  [o EXCEPT !.occupationCountdownM = fnmax(@, OCCUPATION_TIMEOUT_1_M)]

\* "activityCountdownM = 2;"
markActivity(o) == [o EXCEPT !.activityCountdownM = 2]

\* OccupancyTracker::markAsPossiblyOccupied(), whole.
markAsPossiblyOccupied(o) == markActivity(markCountdown(o))

\* The tracker's fields are those of o.
TrackerIs(o) ==
  /\ occupationCountdownM = o.occupationCountdownM
  /\ vacancyM = o.vacancyM
  /\ vacancyH = o.vacancyH
  /\ activityCountdownM = o.activityCountdownM
  /\ occupancyValue = o.value

\* The tracker's fields become those of o.
SetTracker(o) ==
  /\ occupationCountdownM' = o.occupationCountdownM
  /\ vacancyM' = o.vacancyM
  /\ vacancyH' = o.vacancyH
  /\ activityCountdownM' = o.activityCountdownM
  /\ occupancyValue' = o.value

(***************************************************************************)
(* SpecOccupancy: the tracker under read(), once a minute, and             *)
(* markAsPossiblyOccupied(), in any order; each runs whole, read() inside  *)
(* its ATOMIC_BLOCK.  It starts as constructed, or one read() after the    *)
(* room was marked as occupied for the full OCCUPATION_TIMEOUT_M.          *)
(* readsSinceMark counts the read() calls since the last marking, up to    *)
(* ReadsCounted.                                                           *)
(***************************************************************************)
ReadsCounted == OCCUPATION_TIMEOUT_M + 2

OccupancyInit ==
  /\ value = 0
  /\ inputState = NoInput
  /\ isFiltering = FALSE
  /\ prevRawTempC16 = [i \in 1..FilterLength |-> 0]
  /\ initialised = FALSE
  /\ valveTurndownCountdownM = 0
  /\ valveTurnupCountdownM = 0
  /\ cumulativeMovementPC = 0
  /\ valveMoved = FALSE
  /\ isWarmMode = FALSE
  /\ bakeCountdownM = 0
  /\ env = NoEnv
  /\ newTarget = 0
  /\ callingForHeat = FALSE
  /\ tempPotAvailable = FALSE
  /\ tempPot = 0
  /\ rhHigh = FALSE
  /\ readPC = "idle"
  /\ irq = "none"
  /\ occAtStart = Tracker(0, 0, 0, 0, 0)
  /\ StatsInit
  /\ \/ /\ TrackerIs(Tracker(0, 0, 0, 0, 0))
        /\ readsSinceMark = ReadsCounted
     \/ /\ TrackerIs(read(Tracker(OCCUPATION_TIMEOUT_M, 0, 0, 2, 0)))
        /\ readsSinceMark = 1

TrackerRead ==
  /\ SetTracker(read(occ))
  /\ readsSinceMark' = fnmin(readsSinceMark + 1, ReadsCounted)
  /\ UNCHANGED <<valveVars, modeVars, targetVars, callingForHeat, dialVars,
                 readPC, irq, occAtStart, statsVars>>

TrackerMarkAsPossiblyOccupied ==
  /\ SetTracker(markAsPossiblyOccupied(occ))
  /\ readsSinceMark' = 0
  /\ UNCHANGED <<valveVars, modeVars, targetVars, callingForHeat, dialVars,
                 readPC, irq, occAtStart, statsVars>>

OccupancyNext ==
  \/ TrackerRead
  \/ TrackerMarkAsPossiblyOccupied

SpecOccupancy == OccupancyInit /\ [][OccupancyNext]_vars

(***************************************************************************)
(* SpecOccupancyRace: one OccupancyTracker::read() on the main line and    *)
(* one occupancy interrupt whose handler calls markAsPossiblyOccupied(),   *)
(* statement by statement.  The interrupt is raised at any point; the      *)
(* processor serves it between two statements of the main line when        *)
(* interrupts are enabled, and the handler then runs to its end before the *)
(* main line goes on.  read() disables interrupts for the length of its    *)
(* ATOMIC_BLOCK.  The tracker starts in any state of RaceTrackers, kept in *)
(* occAtStart.                                                             *)
(***************************************************************************)
\* Countdowns around 0 and the two timeouts; vacancy counters about to carry
\* and saturated; every value of the activity countdown.
RaceTrackers ==
  { Tracker(c, vac[1], vac[2], a, occupancyConfidence(IF c = 0 THEN 0 ELSE c + 1)) :
      c \in {0, 1, OCCUPATION_TIMEOUT_1_M - 1, OCCUPATION_TIMEOUT_1_M,
             OCCUPATION_TIMEOUT_1_M + 1, OCCUPATION_TIMEOUT_M - 1},
      vac \in {<<0, 0>>, <<59, 0>>, <<59, 254>>, <<30, 255>>},
      a \in 0..2 }

\* Mutant of interruptsEnabled: read() without its ATOMIC_BLOCK.
interruptsEnabledThroughoutRead(pc) == TRUE

\* The interrupt flag seen by a pending interrupt while the main line is at pc:
\* clear from the entry of read()'s ATOMIC_BLOCK to its exit.
interruptsEnabled(pc) == pc \in {"idle", "done"}

RaceInit ==
  /\ value = 0
  /\ inputState = NoInput
  /\ isFiltering = FALSE
  /\ prevRawTempC16 = [i \in 1..FilterLength |-> 0]
  /\ initialised = FALSE
  /\ valveTurndownCountdownM = 0
  /\ valveTurnupCountdownM = 0
  /\ cumulativeMovementPC = 0
  /\ valveMoved = FALSE
  /\ isWarmMode = FALSE
  /\ bakeCountdownM = 0
  /\ env = NoEnv
  /\ newTarget = 0
  /\ callingForHeat = FALSE
  /\ tempPotAvailable = FALSE
  /\ tempPot = 0
  /\ rhHigh = FALSE
  /\ readsSinceMark = 0
  /\ readPC = "idle"
  /\ irq = "none"
  /\ StatsInit
  /\ occAtStart \in { o \in RaceTrackers :
                        o.occupationCountdownM = 0 \/ (o.vacancyH = 0 /\ o.vacancyM = 0) }
  /\ TrackerIs(occAtStart)

\* The handler is not running: the main line has the processor.
mainLineRuns == irq \in {"none", "pending", "served"}

raceRest == <<valveVars, modeVars, targetVars, callingForHeat, dialVars,
              readsSinceMark, occAtStart, statsVars>>

\* The main line enters read() and its ATOMIC_BLOCK.
ReadEnter ==
  /\ mainLineRuns
  /\ readPC = "idle"
  /\ readPC' = "value"
  /\ UNCHANGED <<occupancyVars, irq, raceRest>>

ReadValue ==
  /\ mainLineRuns
  /\ readPC = "value"
  /\ SetTracker(readValue(occ))
  /\ readPC' = "countdown"
  /\ UNCHANGED <<irq, raceRest>>

ReadCountdown ==
  /\ mainLineRuns
  /\ readPC = "countdown"
  /\ SetTracker(readCountdown(occ))
  /\ readPC' = "activity"
  /\ UNCHANGED <<irq, raceRest>>

\* The last statement of the ATOMIC_BLOCK, and its exit.
ReadActivity ==
  /\ mainLineRuns
  /\ readPC = "activity"
  /\ SetTracker(readActivity(occ))
  /\ readPC' = "done"
  /\ UNCHANGED <<irq, raceRest>>

\* Evidence of occupation raises the interrupt.
RaiseInterrupt ==
  /\ irq = "none"
  /\ irq' = "pending"
  /\ UNCHANGED <<occupancyVars, readPC, raceRest>>

\* The processor takes the pending interrupt and enters the handler.
ServeInterrupt ==
  /\ irq = "pending"
  /\ interruptsEnabled(readPC)
  /\ irq' = "markCountdown"
  /\ UNCHANGED <<occupancyVars, readPC, raceRest>>

MarkCountdown ==
  /\ irq = "markCountdown"
  /\ SetTracker(markCountdown(occ))
  /\ irq' = "markActivity"
  /\ UNCHANGED <<readPC, raceRest>>

MarkActivity ==
  /\ irq = "markActivity"
  /\ SetTracker(markActivity(occ))
  /\ irq' = "served"
  /\ UNCHANGED <<readPC, raceRest>>

RaceNext ==
  \/ ReadEnter
  \/ ReadValue
  \/ ReadCountdown
  \/ ReadActivity
  \/ RaiseInterrupt
  \/ ServeInterrupt
  \/ MarkCountdown
  \/ MarkActivity

SpecOccupancyRace == RaceInit /\ [][RaceNext]_vars

(***************************************************************************)
(* The stats store: quartile queries over the 24 hourly bytes of a stats   *)
(* set, and the smoothing of a stored byte.                                *)
(***************************************************************************)
\* The value that marks a stats byte as unset.
STATS_UNSET_INT == 255

\* Hourly samples in a stats set ("for(int8_t hh = 24; --hh >= 0; ++sE)").
StatsSetSize == 24

\* Values to one side of the sample that put it in the outlier quartile.
QuartileCount == 18

\* The loop of inBottomQuartile() from byte hh on, valuesHigher counted so far.
RECURSIVE inBottomQuartileFrom(_, _, _, _)
inBottomQuartileFrom(sE, hh, sample, valuesHigher) ==
  IF hh > StatsSetSize THEN FALSE
  ELSE IF sE[hh] = STATS_UNSET_INT THEN FALSE
  ELSE IF sE[hh] > sample
    THEN IF U8(valuesHigher + 1) >= QuartileCount THEN TRUE
         ELSE inBottomQuartileFrom(sE, hh + 1, sample, U8(valuesHigher + 1))
  ELSE inBottomQuartileFrom(sE, hh + 1, sample, valuesHigher)

inBottomQuartile(sE, sample) == inBottomQuartileFrom(sE, 1, sample, 0)

\* The loop of inTopQuartile() from byte hh on, valuesLower counted so far.
RECURSIVE inTopQuartileFrom(_, _, _, _)
inTopQuartileFrom(sE, hh, sample, valuesLower) ==
  IF hh > StatsSetSize THEN FALSE
  ELSE IF sE[hh] = STATS_UNSET_INT THEN FALSE
  ELSE IF sE[hh] < sample
    THEN IF U8(valuesLower + 1) >= QuartileCount THEN TRUE
         ELSE inTopQuartileFrom(sE, hh + 1, sample, U8(valuesLower + 1))
  ELSE inTopQuartileFrom(sE, hh + 1, sample, valuesLower)

\* Mutant of inTopQuartile: values equal to the sample are counted as lower.
RECURSIVE inTopQuartileNotStrictFrom(_, _, _, _)
inTopQuartileNotStrictFrom(sE, hh, sample, valuesLower) ==
  IF hh > StatsSetSize THEN FALSE
  ELSE IF sE[hh] = STATS_UNSET_INT THEN FALSE
  ELSE IF sE[hh] <= sample
    THEN IF U8(valuesLower + 1) >= QuartileCount THEN TRUE
         ELSE inTopQuartileNotStrictFrom(sE, hh + 1, sample, U8(valuesLower + 1))
  ELSE inTopQuartileNotStrictFrom(sE, hh + 1, sample, valuesLower)

inTopQuartileNotStrict(sE, sample) == inTopQuartileNotStrictFrom(sE, 1, sample, 0)

inTopQuartile(sE, sample) == inTopQuartileFrom(sE, 1, sample, 0)

\* inOutlierQuartile(inTop, statsSet, hour) on a valid stats set whose bytes are
\* sE; an hour above 23 stands for the current hour, hoursLT.
inOutlierQuartile(inTop, sE, hour, hoursLT) ==
  LET hh == IF hour > 23 THEN hoursLT ELSE hour
      sample == sE[hh + 1]
  IN IF sample = STATS_UNSET_INT THEN FALSE
     ELSE IF inTop THEN inTopQuartile(sE, sample)
     ELSE inBottomQuartile(sE, sample)

(***************************************************************************)
(* SpecQuartile: one quartile query on a stats set of QuartileSets: sets   *)
(* whose first hours hold one value and later hours another, complete or   *)
(* with one hour, or every hour from some hour on, unset.                  *)
(***************************************************************************)
\* <<value of the first hours, value of the later hours>>.
QuartileValues == {<<0, 2>>, <<2, 0>>, <<1, 1>>, <<1, 254>>}

\* A set whose first n bytes are v[1] and whose other bytes are v[2], with the
\* bytes of unsetHours unset.
QuartileSet(n, v, unsetHours) ==
  [hh \in 1..StatsSetSize |->
     IF hh \in unsetHours THEN STATS_UNSET_INT
     ELSE IF hh <= n THEN v[1] ELSE v[2]]

QuartileSets ==
  { QuartileSet(n, v, u) :
      n \in 0..StatsSetSize, v \in QuartileValues,
      u \in {{}} \cup { {hh} : hh \in 1..StatsSetSize }
               \cup { hh..StatsSetSize : hh \in 1..StatsSetSize } }

\* Samples passed to inTopQuartile() and inBottomQuartile().
QuartileSamples == {0, 1, 2, 3, 254, 255}

\* Hours passed to inOutlierQuartile(); 255 is the current hour.
QuartileHours == {0, 16, 17, 18, 23, 255}

\* The state after construction, with the EEPROM stats set one of sets.
StatsSetInit(sets) ==
  /\ value = 0
  /\ inputState = NoInput
  /\ isFiltering = FALSE
  /\ prevRawTempC16 = [i \in 1..FilterLength |-> 0]
  /\ initialised = FALSE
  /\ valveTurndownCountdownM = 0
  /\ valveTurnupCountdownM = 0
  /\ cumulativeMovementPC = 0
  /\ valveMoved = FALSE
  /\ isWarmMode = FALSE
  /\ bakeCountdownM = 0
  /\ occupationCountdownM = 0
  /\ vacancyM = 0
  /\ vacancyH = 0
  /\ activityCountdownM = 0
  /\ occupancyValue = 0
  /\ env = NoEnv
  /\ newTarget = 0
  /\ callingForHeat = FALSE
  /\ tempPotAvailable = FALSE
  /\ tempPot = 0
  /\ rhHigh = FALSE
  /\ readsSinceMark = 0
  /\ readPC = "idle"
  /\ irq = "none"
  /\ occAtStart = Tracker(0, 0, 0, 0, 0)
  /\ eeStatsSet \in sets
  /\ quartileQuery = <<>>
  /\ smoothCall = <<>>
  /\ sampleCount_ = 0
  /\ statsTotals = [ambLight |-> 0, tempC16 |-> 0, occpc |-> 0]
  /\ eeStats = [set \in {"temp", "ambLight", "occpc"} |->
                 [last |-> [hh \in 0..23 |-> 255], smoothed |-> [hh \in 0..23 |-> 255]]]
  /\ statsUpdate = <<>>
  /\ statsSamplesTaken = 0
  /\ warmCount = 0
  /\ eeWarmHistory = [hh \in 0..23 |-> 255]
  /\ codecCall = <<>>
  /\ zapCall = <<>>
  /\ LoopVarsInit

QuartileInit == StatsSetInit(QuartileSets)

quartileRest == <<valveVars, modeVars, occupancyVars, targetVars, callingForHeat,
                  dialVars, raceVars, eeStatsSet, smoothCall, sampleVars, callVars, loopVars>>

InTopQuartile ==
  /\ quartileQuery = <<>>
  /\ \E sample \in QuartileSamples :
       quartileQuery' = [inTop |-> TRUE, sample |-> sample,
                         result |-> inTopQuartile(eeStatsSet, sample)]
  /\ UNCHANGED quartileRest

InBottomQuartile ==
  /\ quartileQuery = <<>>
  /\ \E sample \in QuartileSamples :
       quartileQuery' = [inTop |-> FALSE, sample |-> sample,
                         result |-> inBottomQuartile(eeStatsSet, sample)]
  /\ UNCHANGED quartileRest

InOutlierQuartile ==
  /\ quartileQuery = <<>>
  /\ \E inTop \in BOOLEAN, hour \in QuartileHours, hoursLT \in {0, 23} :
       quartileQuery' =
         [inTop |-> inTop,
          sample |-> eeStatsSet[(IF hour > 23 THEN hoursLT ELSE hour) + 1],
          result |-> inOutlierQuartile(inTop, eeStatsSet, hour, hoursLT)]
  /\ UNCHANGED quartileRest

QuartileNext ==
  \/ InTopQuartile
  \/ InBottomQuartile
  \/ InOutlierQuartile

SpecQuartile == QuartileInit /\ [][QuartileNext]_vars

(***************************************************************************)
(* SpecSmooth: one smoothStatsValue() call, for every old smoothed byte,   *)
(* every new byte and every value randRNG8() can return.                   *)
(***************************************************************************)
STATS_SMOOTH_SHIFT == 3

\* The values of "randRNG8() & ((1 << STATS_SMOOTH_SHIFT) - 1)".
stocAdds == { r % (2 ^ STATS_SMOOTH_SHIFT) : r \in 0..255 }

\* Mutant of smoothStatsValue: the arithmetic done in 8 bits.
smoothStatsValueIn8Bits(oldSmoothed, newValue, stocAdd) ==
  IF oldSmoothed = newValue THEN oldSmoothed
  ELSE U8(U8(U8(oldSmoothed * (2 ^ STATS_SMOOTH_SHIFT)) - oldSmoothed + newValue + stocAdd)
            \div (2 ^ STATS_SMOOTH_SHIFT))

\* smoothStatsValue(oldSmoothed, newValue) when randRNG8() & 7 gives stocAdd.
smoothStatsValue(oldSmoothed, newValue, stocAdd) ==
  IF oldSmoothed = newValue THEN oldSmoothed
  ELSE U8(U16(U16(oldSmoothed * (2 ^ STATS_SMOOTH_SHIFT)) - oldSmoothed + newValue + stocAdd)
            \div (2 ^ STATS_SMOOTH_SHIFT))

SmoothInit ==
  /\ Init

smoothRest == <<valveVars, modeVars, occupancyVars, targetVars, callingForHeat,
                dialVars, raceVars, eeStatsSet, quartileQuery, sampleVars, callVars, loopVars>>

SmoothStatsValue ==
  /\ smoothCall = <<>>
  /\ \E oldSmoothed \in 0..255, newValue \in 0..255, stocAdd \in stocAdds :
       smoothCall' = [oldSmoothed |-> oldSmoothed, newValue |-> newValue,
                      stocAdd |-> stocAdd,
                      result |-> smoothStatsValue(oldSmoothed, newValue, stocAdd)]
  /\ UNCHANGED smoothRest

SmoothNext == SmoothStatsValue

SpecSmooth == SmoothInit /\ [][SmoothNext]_vars

(***************************************************************************)
(* SpecStats: sampleStats() called through the hours, as an optional       *)
(* sub-sample and then the full sample of the hour, on an EEPROM that      *)
(* starts erased.  The build has OCCUPANCY_SUPPORT, no humidity sensor and *)
(* no WARM-mode history set.                                               *)
(***************************************************************************)
\* Highest ambient light value that is recorded in the stats.
MAX_STATS_AMBLIGHT == 254

COMPRESSION_C16_LOW_THRESHOLD == 16 * 16
COMPRESSION_C16_LOW_THR_AFTER == COMPRESSION_C16_LOW_THRESHOLD \div 8
COMPRESSION_C16_HIGH_THRESHOLD == 24 * 16
COMPRESSION_C16_HIGH_THR_AFTER ==
  COMPRESSION_C16_LOW_THR_AFTER
    + ((COMPRESSION_C16_HIGH_THRESHOLD - COMPRESSION_C16_LOW_THRESHOLD) \div 2)
COMPRESSION_C16_CEIL_VAL == 100 * 16
COMPRESSION_C16_CEIL_VAL_AFTER ==
  COMPRESSION_C16_HIGH_THR_AFTER
    + ((COMPRESSION_C16_CEIL_VAL - COMPRESSION_C16_HIGH_THRESHOLD) \div 8)

\* Mutant of compressTempC16: no ceiling on the input value.
compressTempC16NoCeiling(tempC16) ==
  IF tempC16 <= 0 THEN 0
  ELSE IF tempC16 < COMPRESSION_C16_LOW_THRESHOLD THEN U8(tempC16 \div 8)
  ELSE IF tempC16 < COMPRESSION_C16_HIGH_THRESHOLD
    THEN U8(((tempC16 - COMPRESSION_C16_LOW_THRESHOLD) \div 2) + COMPRESSION_C16_LOW_THR_AFTER)
  ELSE U8(((tempC16 - COMPRESSION_C16_HIGH_THRESHOLD) \div 8) + COMPRESSION_C16_HIGH_THR_AFTER)

compressTempC16(tempC16) ==
  IF tempC16 <= 0 THEN 0
  ELSE IF tempC16 < COMPRESSION_C16_LOW_THRESHOLD THEN U8(tempC16 \div 8)
  ELSE IF tempC16 < COMPRESSION_C16_HIGH_THRESHOLD
    THEN U8(((tempC16 - COMPRESSION_C16_LOW_THRESHOLD) \div 2) + COMPRESSION_C16_LOW_THR_AFTER)
  ELSE IF tempC16 < COMPRESSION_C16_CEIL_VAL
    THEN U8(((tempC16 - COMPRESSION_C16_HIGH_THRESHOLD) \div 8) + COMPRESSION_C16_HIGH_THR_AFTER)
  ELSE COMPRESSION_C16_CEIL_VAL_AFTER

\* smartDivToU8() as built with STATS_MAX_2_SAMPLES.
smartDivToU8(total, sampleCount) ==
  IF sampleCount = 1 THEN U8(total) ELSE U8(U16(total + 1) \div 2)

\* Mutant of statsAmbLight: the reading is not constrained at the top end.
statsAmbLightUncapped(reading) == reading

\* "fnmin(AmbLight.get(), (uint8_t)MAX_STATS_AMBLIGHT)".
statsAmbLight(reading) == fnmin(reading, U8(MAX_STATS_AMBLIGHT))

\* simpleUpdateStatsPair_() on the 'last' and 'smoothed' sets of a pair at hour
\* hh, when randRNG8() & 7 gives stocAdd if smoothStatsValue() draws it.
simpleUpdateStatsPair_(pair, hh, v, stocAdd) ==
  [last |-> [pair.last EXCEPT ![hh] = v],
   smoothed |-> [pair.smoothed EXCEPT
                   ![hh] = IF @ = 255 THEN v ELSE smoothStatsValue(@, v, stocAdd)]]

\* The running totals after this sample is taken in.
statsTotalsAfter(firstSample, totals, rd) ==
  [ambLight |-> IF firstSample THEN statsAmbLight(rd.ambLight)
                ELSE U16(totals.ambLight + statsAmbLight(rd.ambLight)),
   tempC16 |-> IF firstSample THEN rd.tempC16 ELSE totals.tempC16 + rd.tempC16,
   occpc |-> IF firstSample THEN rd.occpc ELSE U16(totals.occpc + rd.occpc)]

\* The values that the full sample passes to simpleUpdateStatsPair().
statsValues(totals, sc) ==
  [temp |-> compressTempC16(IF sc = 1 THEN totals.tempC16
                            ELSE (totals.tempC16 + 1) \div 2),
   ambLight |-> smartDivToU8(totals.ambLight, sc),
   occpc |-> smartDivToU8(totals.occpc, sc)]

\* Full samples taken in a behaviour.
MaxStatsSamples == 3

\* AmbLight.get(), TemperatureC16.get() and Occupancy.get() at a sample.
StatsReadings ==
  { [ambLight |-> 0, tempC16 |-> -16, occpc |-> 0],
    [ambLight |-> 255, tempC16 |-> 20 * 16 + 5, occpc |-> 100],
    [ambLight |-> 254, tempC16 |-> 110 * 16, occpc |-> 99] }

\* getHoursLT() at a full sample.
StatsHours == {0, 23}

\* Rounding values drawn by the smoothing of one full sample, by stats pair.
StatsStocAdds == [DOMAIN eeStats -> {0, 2 ^ STATS_SMOOTH_SHIFT - 1}]

StatsSamplingInit ==
  /\ Init

samplingRest == <<valveVars, modeVars, occupancyVars, targetVars, callingForHeat,
                  dialVars, raceVars, eeStatsSet, quartileQuery, smoothCall, callVars, loopVars>>

\* warmCount once sampleStats() has counted the mode of this sample.
warmCountAfter(count, warm) == I8(count + (IF warm THEN 1 ELSE -1))

\* A history whose new top bit is the mode of the full sample alone.
warmHistoryAfterModeOnly(warmHistory, warm, count) ==
  IF warmHistory >= 128
    THEN (IF warm THEN warmHistory % 128 ELSE 0)
    ELSE ((warmHistory \div 2) % 64) + (IF warm THEN 64 ELSE 0)

\* The hour's warm-mode history byte after a full sample taken in mode warm
\* with count the value of warmCount: an unused byte (top bit set) has the
\* bits outside the mask 0x7f or 0 of the current mode cleared, a used one
\* is shifted down with the new top bit.
warmHistoryAfter(warmHistory, warm, count) ==
  IF warmHistory >= 128
    THEN (IF warm THEN warmHistory % 128 ELSE 0)
    ELSE ((warmHistory \div 2) % 64) + (IF count > 0 THEN 64 ELSE 0)

\* sampleStats(false) with these readings: a sub-sample, ignored unless it
\* is the first since the last full sample.
sampleStatsSub(rd) ==
  /\ sampleCount_ = 0
  /\ warmCount' = warmCountAfter(warmCount, inWarmMode)
  /\ statsTotals' = statsTotalsAfter(TRUE, statsTotals, rd)
  /\ sampleCount_' = U8(sampleCount_ + 1)
  /\ UNCHANGED <<eeStats, statsUpdate, statsSamplesTaken, eeWarmHistory>>

\* sampleStats(true) with these readings in hour hh.
sampleStatsFull(rd, hh, stocAdd) ==
  /\ \E sc \in {U8(sampleCount_ + 1)} :
       /\ statsTotals' = statsTotalsAfter(sampleCount_ = 0, statsTotals, rd)
       /\ \E v \in {statsValues(statsTotals', sc)} :
            /\ eeStats' = [set \in DOMAIN eeStats |->
                             simpleUpdateStatsPair_(eeStats[set], hh, v[set], stocAdd[set])]
            /\ statsUpdate' = [hh |-> hh, sc |-> sc, v |-> v]
  /\ sampleCount_' = 0
  /\ eeWarmHistory' = [eeWarmHistory EXCEPT
                         ![hh] = warmHistoryAfter(@, inWarmMode,
                                                  warmCountAfter(warmCount, inWarmMode))]
  /\ warmCount' = 0
  /\ statsSamplesTaken' = statsSamplesTaken + 1

\* sampleStats(false): a sub-sample, ignored unless it is the first of the hour.
SampleStatsSubSample ==
  /\ \E rd \in StatsReadings : sampleStatsSub(rd)
  /\ UNCHANGED samplingRest

\* sampleStats(true): the full sample of the hour.
SampleStatsFull ==
  /\ statsSamplesTaken < MaxStatsSamples
  /\ \E rd \in StatsReadings, hh \in StatsHours, stocAdd \in StatsStocAdds :
       sampleStatsFull(rd, hh, stocAdd)
  /\ UNCHANGED samplingRest

StatsNext ==
  \/ SampleStatsSubSample
  \/ SampleStatsFull

SpecStats == StatsSamplingInit /\ [][StatsNext]_vars

(***************************************************************************)
(* SpecWarmHistory: the warm-mode history of two hours of the day under    *)
(* changes of mode, sub-samples and full samples, from an erased EEPROM.   *)
(* The readings are fixed, since the history ignores them.                 *)
(***************************************************************************)
\* Full samples taken in a behaviour: a first use and a full window after it.
MaxWarmSamples == 9

WarmReading == [ambLight |-> 254, tempC16 |-> 20 * 16 + 5, occpc |-> 99]

WarmStocAdd == [set \in DOMAIN eeStats |-> 0]

WarmHistoryInit ==
  /\ Init

WarmSetWarmModeDebounced ==
  /\ \E warm \in BOOLEAN : setWarmModeDebounced(warm)
  /\ UNCHANGED <<valveVars, occupancyVars, targetVars, auxVars>>

WarmSampleStatsSubSample ==
  /\ sampleStatsSub(WarmReading)
  /\ UNCHANGED samplingRest

WarmSampleStatsFull ==
  /\ statsSamplesTaken < MaxWarmSamples
  /\ \E hh \in StatsHours : sampleStatsFull(WarmReading, hh, WarmStocAdd)
  /\ UNCHANGED samplingRest

WarmHistoryNext ==
  \/ WarmSetWarmModeDebounced
  \/ WarmSampleStatsSubSample
  \/ WarmSampleStatsFull

SpecWarmHistory == WarmHistoryInit /\ [][WarmHistoryNext]_vars

(***************************************************************************)
(* SpecLoop: the clock of the main loop and the stats samples it takes.    *)
(* setup() takes the seconds of the RTC; every iteration of loop() works   *)
(* out whether this is the first minute of four, sleeps until the RTC      *)
(* shows a new second, and runs the tasks of that second: second 0 counts  *)
(* the minute, second 58 takes the stats samples.  An iteration that ends  *)
(* after the RTC has moved on is an overrun: TIME_LSD is set to the new    *)
(* second, whose tasks are not run.  The supply voltage may be low at any  *)
(* iteration.  The readings sampled are fixed.                             *)
(***************************************************************************)
\* Length of the major cycle in seconds, and of a tick of the RTC.
TIME_CYCLE_S == 60
MAIN_TICK_S == 2

\* Clock hours that end in a behaviour, and loop overruns in it.
MaxLoopHours == 2
MaxLoopOverruns == 1

\* getHoursLT(), getMinutesLT() and getSecondsLT() when setup() ends.
LoopBoots == {<<22, 59, 58>>, <<23, 0, 0>>, <<23, 27, 30>>, <<23, 58, 56>>}

\* The RTC one tick after hours h, minutes m, seconds s.
rtcAfterTick(h, m, s) ==
  IF s + MAIN_TICK_S < TIME_CYCLE_S THEN [h |-> h, m |-> m, s |-> s + MAIN_TICK_S]
  ELSE IF m < 59 THEN [h |-> h, m |-> m + 1, s |-> 0]
  ELSE [h |-> (h + 1) % 24, m |-> 0, s |-> 0]

\* The end of setup().
LoopSetup ==
  /\ ~looping
  /\ looping' = TRUE
  /\ \E boot \in LoopBoots :
       /\ rtcHours' = boot[1]
       /\ rtcMinutes' = boot[2]
       /\ TIME_LSD' = boot[3]
  /\ UNCHANGED <<minuteCount, samplesInHour, hoursRun, overruns, loopTicks, hubVars>>
  /\ UNCHANGED <<valveVars, modeVars, occupancyVars, targetVars, callingForHeat,
                 dialVars, raceVars, eeStatsSet, quartileQuery, smoothCall,
                 sampleVars, callVars>>

\* The samples counted in the clock hour of the RTC time now, after a step
\* that took a sub-sample (sub), a full sample (full) or overran.
samplesInHourAfter(now, sub, full, overran) ==
  LET was == IF now.h # rtcHours THEN NoSamplesInHour ELSE samplesInHour
  IN  [full |-> was.full + (IF full THEN 1 ELSE 0),
       sub |-> was.sub + (IF sub THEN 1 ELSE 0),
       overran |-> was.overran \/ overran]

\* ModelledRadValve::isControlledValveReallyOpen().
isControlledValveReallyOpen(recalibrating, fht8vValveOpen) ==
  IF recalibrating THEN FALSE
  ELSE IF ~fht8vValveOpen THEN FALSE
  ELSE value >= DEFAULT_MIN_VALVE_PC_REALLY_OPEN

inHubMode == minBoilerOnMinutes # 0

\* A countdown re-armed with the minutes themselves.
boilerCountdownAfterInMinutes(hubMode, heardIt) ==
  IF ~hubMode THEN boilerCountdownTicks
  ELSE IF heardIt THEN U16(minBoilerOnMinutes)
  ELSE IF boilerCountdownTicks > 0 THEN boilerCountdownTicks - 1
  ELSE boilerCountdownTicks

\* boilerCountdownTicks after the hub has dealt with the call for heat, heard
\* or not, of this iteration.
boilerCountdownAfter(hubMode, heardIt) ==
  IF ~hubMode THEN boilerCountdownTicks
  ELSE IF heardIt THEN U16(minBoilerOnMinutes * (60 \div MAIN_TICK_S))
  ELSE IF boilerCountdownTicks > 0 THEN boilerCountdownTicks - 1
  ELSE boilerCountdownTicks

\* One iteration of loop() that ends before the next tick of the RTC: the
\* hub's countdown and the boiler output, the sleep until the tick, and the
\* tasks of the new second.
loopOpenTRV(batteryLow, heardIt, recalibrating, fht8vValveOpen) ==
  LET second0 == (TIME_LSD = 0)
      minute0From4ForSensors == (minuteCount % 4 = 0)
      hubMode == inHubMode
      now == rtcAfterTick(rtcHours, rtcMinutes, TIME_LSD)
      statsDue == now.s = 58 /\ minute0From4ForSensors
      sub == statsDue /\ now.m \in 26..29 /\ ~batteryLow
      full == statsDue /\ now.m \in 56..59
  IN  /\ boilerCountdownTicks' = boilerCountdownAfter(hubMode, heardIt)
      /\ boilerNoCallM' =
           IF hubMode /\ heardIt THEN 0
           ELSE IF hubMode /\ boilerCountdownTicks = 0 /\ second0 /\ boilerNoCallM < 255
             THEN boilerNoCallM + 1
           ELSE boilerNoCallM
      /\ valveReallyOpen' = isControlledValveReallyOpen(recalibrating, fht8vValveOpen)
      /\ heatCallOut' = ((hubMode /\ boilerCountdownTicks' > 0) \/ valveReallyOpen')
      /\ ticksSinceHeard' = IF hubMode /\ heardIt THEN 0
                            ELSE IF ticksSinceHeard = -1 THEN -1
                            ELSE ticksSinceHeard + 1
      /\ rtcHours' = now.h
      /\ rtcMinutes' = now.m
      /\ TIME_LSD' = now.s
      /\ minuteCount' = IF now.s = 0 THEN U8(minuteCount + 1) ELSE minuteCount
      /\ IF sub /\ sampleCount_ = 0 THEN sampleStatsSub(WarmReading)
         ELSE IF full THEN sampleStatsFull(WarmReading, now.h, WarmStocAdd)
         ELSE UNCHANGED sampleVars
      /\ samplesInHour' = samplesInHourAfter(now, sub, full, FALSE)
      /\ hoursRun' = hoursRun + (IF now.h # rtcHours THEN 1 ELSE 0)
      /\ loopTicks' = loopTicks + 1
      /\ UNCHANGED <<looping, overruns, minBoilerOnMinutes>>

\* The end of an iteration that overran: the RTC has gone one tick on, and
\* the next iteration sleeps until the tick after it.
loopOverrun ==
  LET now == rtcAfterTick(rtcHours, rtcMinutes, TIME_LSD)
  IN  /\ rtcHours' = now.h
      /\ rtcMinutes' = now.m
      /\ TIME_LSD' = now.s
      /\ samplesInHour' = samplesInHourAfter(now, FALSE, FALSE, TRUE)
      /\ hoursRun' = hoursRun + (IF now.h # rtcHours THEN 1 ELSE 0)
      /\ overruns' = overruns + 1
      /\ UNCHANGED <<looping, minuteCount, sampleVars, loopTicks, hubVars>>

loopRest == <<valveVars, modeVars, occupancyVars, targetVars, callingForHeat,
              dialVars, raceVars, eeStatsSet, quartileQuery, smoothCall, callVars>>

LoopOpenTRV ==
  /\ looping
  /\ hoursRun < MaxLoopHours
  /\ \E batteryLow \in BOOLEAN : loopOpenTRV(batteryLow, FALSE, FALSE, TRUE)
  /\ UNCHANGED loopRest

LoopOverrun ==
  /\ looping
  /\ hoursRun < MaxLoopHours
  /\ overruns < MaxLoopOverruns
  /\ loopOverrun
  /\ UNCHANGED loopRest

LoopNext ==
  \/ LoopSetup
  \/ LoopOpenTRV
  \/ LoopOverrun

SpecLoop == Init /\ [][LoopNext]_vars

(***************************************************************************)
(* SpecHub: the boiler output of a hub.  setMinBoilerOnMinutes() makes the *)
(* unit a hub before setup(); every iteration of loop() may have heard a   *)
(* remote call for heat, and finds the local valve recalibrating or not    *)
(* and the FHT8V valve open or not.  The local valve stays at the position *)
(* it starts with.                                                         *)
(***************************************************************************)
\* Iterations of loop() in a behaviour.
MaxHubTicks == 100

\* Minimum boiler-on times set, in minutes.
HubMinBoilerOnMinutes == {1, 2}

\* Positions of the local valve: shut, just under really open, really open.
HubValves == {0, DEFAULT_MIN_VALVE_PC_REALLY_OPEN - 1, DEFAULT_MIN_VALVE_PC_REALLY_OPEN}

\* <<isRecalibrating(), FHT8VisControlledValveOpen()>> at an iteration.
HubValveFlags == {<<FALSE, TRUE>>, <<TRUE, TRUE>>, <<FALSE, FALSE>>}

HubInit ==
  /\ value \in HubValves
  /\ inputState = NoInput
  /\ isFiltering = FALSE
  /\ prevRawTempC16 = [i \in 1..FilterLength |-> 0]
  /\ initialised = FALSE
  /\ valveTurndownCountdownM = 0
  /\ valveTurnupCountdownM = 0
  /\ cumulativeMovementPC = 0
  /\ valveMoved = FALSE
  /\ RestInit

\* setMinBoilerOnMinutes(mins), before the loop starts.
HubSetMinBoilerOnMinutes ==
  /\ ~looping
  /\ \E mins \in HubMinBoilerOnMinutes : minBoilerOnMinutes' = U8(mins)
  /\ UNCHANGED <<clockVars, boilerCountdownTicks, boilerNoCallM, heatCallOut,
                 valveReallyOpen, ticksSinceHeard>>
  /\ UNCHANGED <<loopRest, sampleVars>>

HubLoopOpenTRV ==
  /\ looping
  /\ loopTicks < MaxHubTicks
  /\ \E heardIt \in BOOLEAN, flags \in HubValveFlags :
       loopOpenTRV(FALSE, heardIt, flags[1], flags[2])
  /\ UNCHANGED loopRest

HubNext ==
  \/ HubSetMinBoilerOnMinutes
  \/ LoopSetup
  \/ HubLoopOpenTRV

SpecHub == HubInit /\ [][HubNext]_vars

(***************************************************************************)
(* SpecCodec: one compressTempC16() call and the expandTempC16() of its    *)
(* result, for every temperature from below 0 C to above 100 C.            *)
(***************************************************************************)
expandTempC16(cTemp) ==
  IF cTemp < COMPRESSION_C16_LOW_THR_AFTER THEN cTemp * 8
  ELSE IF cTemp < COMPRESSION_C16_HIGH_THR_AFTER
    THEN ((cTemp - COMPRESSION_C16_LOW_THR_AFTER) * 2) + COMPRESSION_C16_LOW_THRESHOLD
  ELSE IF cTemp <= COMPRESSION_C16_CEIL_VAL_AFTER
    THEN ((cTemp - COMPRESSION_C16_HIGH_THR_AFTER) * 8) + COMPRESSION_C16_HIGH_THRESHOLD
  ELSE STATS_UNSET_INT

\* Temperatures passed to compressTempC16(), in 16ths of a degree C.
CodecTempsC16 == (0 - 40)..(COMPRESSION_C16_CEIL_VAL + 40)

codecRest == <<valveVars, modeVars, occupancyVars, targetVars, callingForHeat,
               dialVars, raceVars, eeStatsSet, quartileQuery, smoothCall,
               sampleVars, zapCall, loopVars>>

\* compressTempC16(tempC16) and compressTempC16(tempC16 + 1), and the first
\* result expanded again.
CompressAndExpand ==
  /\ codecCall = <<>>
  /\ \E tempC16 \in CodecTempsC16 :
       codecCall' = [tempC16 |-> tempC16,
                     compressed |-> compressTempC16(tempC16),
                     compressedNext |-> compressTempC16(tempC16 + 1),
                     expanded |-> expandTempC16(compressTempC16(tempC16))]
  /\ UNCHANGED codecRest

CodecNext == CompressAndExpand

SpecCodec == Init /\ [][CodecNext]_vars

(***************************************************************************)
(* SpecZap: zapStats() called again and again on a stats area that starts  *)
(* with some bytes written.  The area from EE_START_STATS to EE_END_STATS  *)
(* is the bytes of eeStatsSet.  SpecZapFair adds that the calls go on.     *)
(***************************************************************************)
\* The value of an erased EEPROM byte.
EE_ERASED == 255

\* Mutant of zapStatsFrom: the erase budget is never used up.
RECURSIVE zapStatsFromNoStop(_, _, _)
zapStatsFromNoStop(area, p, maxBytesToErase) ==
  IF p > Len(area) THEN [area |-> area, result |-> TRUE]
  ELSE zapStatsFromNoStop([area EXCEPT ![p] = EE_ERASED], p + 1, maxBytesToErase)

\* The loop of zapStats() from byte p on, with maxBytesToErase left of the
\* budget; eeprom_smart_erase_byte() erases a byte that is not erased and
\* returns whether it did.
RECURSIVE zapStatsFrom(_, _, _)
zapStatsFrom(area, p, maxBytesToErase) ==
  IF p > Len(area) THEN [area |-> area, result |-> TRUE]
  ELSE IF area[p] # EE_ERASED
    THEN IF U16(maxBytesToErase - 1) = 0
           THEN [area |-> [area EXCEPT ![p] = EE_ERASED], result |-> FALSE]
           ELSE zapStatsFrom([area EXCEPT ![p] = EE_ERASED], p + 1,
                             U16(maxBytesToErase - 1))
  ELSE zapStatsFrom(area, p + 1, maxBytesToErase)

zapStats(area, maxBytesToErase) == zapStatsFrom(area, 1, maxBytesToErase)

\* Stats areas with the bytes of written holding a value.
ZapArea(written) ==
  [p \in 1..StatsSetSize |-> IF p \in written THEN 0 ELSE EE_ERASED]

ZapAreas ==
  { ZapArea(written) : written \in (SUBSET {1, 2, 3, 12, 23, 24}) \cup {1..StatsSetSize} }

\* Erase budgets passed to zapStats(); 0 allows 65536.
ZapBudgets == {0, 1, 2, 3, 24, 25}

ZapInit == StatsSetInit(ZapAreas)

zapRest == <<valveVars, modeVars, occupancyVars, targetVars, callingForHeat,
             dialVars, raceVars, quartileQuery, smoothCall, sampleVars, codecCall, loopVars>>

ZapStats ==
  /\ \E maxBytesToErase \in ZapBudgets :
       \E r \in {zapStats(eeStatsSet, maxBytesToErase)} :
         /\ eeStatsSet' = r.area
         /\ zapCall' = [maxBytesToErase |-> maxBytesToErase, result |-> r.result]
  /\ UNCHANGED zapRest

ZapNext == ZapStats

SpecZap == ZapInit /\ [][ZapNext]_vars

SpecZapFair == ZapInit /\ [][ZapNext]_vars /\ WF_vars(ZapNext)

(***************************************************************************)
(* State predicates about the last tick().  tick() leaves isFiltering and  *)
(* prevRawTempC16 as computeRequiredTRVPercentOpen read them, so the       *)
(* adjusted temperature of the last tick can be read off the state.        *)
(***************************************************************************)
Ticked == inputState # NoInput

lastAdjustedTempC == adjustedTempC(inputState, retainedState)

BelowTarget == Ticked /\ lastAdjustedTempC < inputState.targetTempC

AboveTarget == Ticked /\ lastAdjustedTempC > inputState.targetTempC

(***************************************************************************)
(* Claims about one tick (SpecStep) and about ticks from construction      *)
(* (Spec).                                                                 *)
(***************************************************************************)
\* C1 as stated: in every tick in which the (possibly filtered) temperature is
\* below the target, the valve percent produced lies within
\* [minPercentOpen, maxPercentOpen].
C1_ValveWithinBoundsBelowTarget ==
  BelowTarget => (value >= inputState.minPCOpen /\ value <= inputState.maxPCOpen)

\* C1 as amended: in every tick below target the valve percent produced is never
\* below the smaller of the starting position and maxPercentOpen; it is at most
\* the larger of maxPercentOpen and TRV_SLEW_PC_PER_MIN_FAST (the jump of a nearly
\* closed valve to minOpenFromCold is not capped); and it is at least
\* minPercentOpen whenever BAKE is active, or no turn-down hysteresis countdown is
\* pending and glacial mode is not requested.
C1_ValveBoundsBelowTarget ==
  [][BelowTarget' =>
       /\ value' >= fnmin(value, inputState'.maxPCOpen)
       /\ value' <= fnmax(inputState'.maxPCOpen, TRV_SLEW_PC_PER_MIN_FAST)
       /\ (inputState'.inBakeMode
           \/ (~dontTurnup(tickCountdown(valveTurndownCountdownM))
               /\ ~inputState'.glacial)
             => value' >= inputState'.minPCOpen)]_vars

\* C1 witness: a tick below target, outside BAKE, with no hysteresis pending, has
\* opened a valve that was below minPercentOpen to a position within the bounds.
C1_Witness ==
  /\ BelowTarget
  /\ ~inputState.inBakeMode
  /\ valveMoved
  /\ cumulativeMovementPC > inputState.minPCOpen - value
  /\ value >= inputState.minPCOpen
  /\ value < inputState.maxPCOpen

\* C4: in any tick with inBakeMode true and the temperature below the target, the
\* valve percent after the tick equals maxPercentOpen.
C4_BakeOpensToMax ==
  BelowTarget /\ inputState.inBakeMode => value = inputState.maxPCOpen

\* C4 witness: a BAKE tick below target has moved the valve to maxPercentOpen
\* although glacial was requested, the filter is on and the turn-down hysteresis
\* countdown is still running.
C4_Witness ==
  /\ BelowTarget
  /\ inputState.inBakeMode
  /\ inputState.glacial
  /\ isFiltering
  /\ valveMoved
  /\ valveTurndownCountdownM # 0
  /\ value = inputState.maxPCOpen

\* C6: after any sequence of ticks from construction, for input states with
\* 1 <= minPercentOpen <= maxPercentOpen <= 100 and temperatures below, just over
\* and over the target, the valve percent is within [0,100] (no 8-bit underflow
\* or overflow in any open or close step).
C6_ValvePercentInRange == value \in 0..100

changedInWindow ==
  \/ valveTurnupCountdownM > 1
  \/ valveTurndownCountdownM >
       DEFAULT_ANTISEEK_VALVE_REOPEN_DELAY_M - DEFAULT_ANTISEEK_VALVE_RECLOSE_DELAY_M + 1

\* C3 as stated: under a temperature oscillating across the target on every
\* tick, the valve percent changes at most once within any window of the
\* hysteresis tick count (so never on consecutive ticks).
C3_OneChangePerHysteresisWindow ==
  [][changedInWindow => ~valveMoved']_vars

\* C3 as amended: under a temperature oscillating across the target on every
\* tick, the valve does not reverse direction within the hysteresis delay: within
\* DEFAULT_ANTISEEK_VALVE_RECLOSE_DELAY_M ticks of an opening step it is not
\* closed (except that a valve standing above maxPercentOpen is set to
\* maxPercentOpen by a tick below target), and within
\* DEFAULT_ANTISEEK_VALVE_REOPEN_DELAY_M ticks of a closing step no tick at or
\* below target outside BAKE opens it; it may keep moving in the same direction
\* on successive ticks.
C3_NoReversalWithinHysteresis ==
  [][/\ valveTurnupCountdownM > 1 => value' >= fnmin(value, inputState'.maxPCOpen)
     /\ (valveTurndownCountdownM > 1 /\ ~inputState'.inBakeMode /\ ~AboveTarget')
          => value' <= value]_vars

\* C3 witness: on the tick after an opening step the temperature is over the
\* target, and the open valve has been held where it was.
C3_Witness ==
  /\ AboveTarget
  /\ value > 0
  /\ ~valveMoved
  /\ valveTurnupCountdownM = DEFAULT_ANTISEEK_VALVE_RECLOSE_DELAY_M - 1

(***************************************************************************)
(* Claims about the cold-room scenario (SpecColdRoom).                     *)
(***************************************************************************)
\* C5 as stated: in the cold-room scenario the first tick opens the valve to at
\* least minOpenFromCold (>= TRV_MAX_SLEW_PC_PER_MIN), and every subsequent tick
\* while still below the proportional band and below maxPercentOpen raises it by
\* TRV_SLEW_PC_PER_MIN_FAST.
C5_ColdRoomFastSlewEveryTick ==
  [][/\ value = 0 =>
          /\ value' >= minOpenFromCold(value, inputState', retainedState')
          /\ value' >= TRV_MAX_SLEW_PC_PER_MIN
     /\ (value > 0 /\ value < inputState'.maxPCOpen /\ BelowTarget')
          => value' = value + TRV_SLEW_PC_PER_MIN_FAST]_vars

\* C5 as amended: in the cold-room scenario the first tick opens the valve to
\* minOpenFromCold = max(TRV_SLEW_PC_PER_MIN_FAST, minPercentOpen); every
\* subsequent tick below the proportional band raises a valve that is below
\* DEFAULT_VALVE_PC_MODERATELY_OPEN by TRV_SLEW_PC_PER_MIN_FAST and a valve that
\* is at least moderately open by TRV_MAX_SLEW_PC_PER_MIN only, never beyond
\* maxPercentOpen.
C5_ColdRoomSlew ==
  [][/\ value = 0 =>
          /\ value' = fnmax(TRV_SLEW_PC_PER_MIN_FAST, inputState'.minPCOpen)
          /\ value' >= TRV_MAX_SLEW_PC_PER_MIN
     /\ (value > 0 /\ BelowTarget') =>
          value' = fnmin(inputState'.maxPCOpen,
                         value + (IF value < DEFAULT_VALVE_PC_MODERATELY_OPEN
                                    THEN TRV_SLEW_PC_PER_MIN_FAST
                                    ELSE TRV_MAX_SLEW_PC_PER_MIN))]_vars

\* C5 witness: the valve, opened from 0 in fast steps, has gone on in a slow step
\* past the moderately open position while the room is still cold.
C5_Witness ==
  /\ BelowTarget
  /\ valveMoved
  /\ cumulativeMovementPC = value
  /\ value = 4 * TRV_SLEW_PC_PER_MIN_FAST + TRV_MAX_SLEW_PC_PER_MIN

(***************************************************************************)
(* Claims about computeTargetTemp() (SpecTarget).                          *)
(***************************************************************************)
\* computeTargetTemp() ran in WARM mode, not in BAKE.
CalledInWarm == Called /\ inWarmMode /\ ~inBakeMode

\* C7: every target returned by computeTargetTemp in WARM mode with a setback
\* applied is at least getFROSTTargetC(), for every stored WARM and FROST target
\* and every setback tier.
C7_SetbackNeverBelowFrost ==
  (CalledInWarm /\ canSetBack(env)) => newTarget >= getFROSTTargetC(env)

\* C7 witness: with the WARM target equal to a stored FROST target, the full
\* setback would have taken the target below it, and the FROST target was
\* returned.
C7_Witness ==
  /\ CalledInWarm
  /\ canSetBack(env)
  /\ setbackOf(env) = SETBACK_FULL
  /\ getWARMTargetC(env) - SETBACK_DEFAULT < getFROSTTargetC(env)
  /\ getFROSTTargetC(env) > MIN_TARGET_C
  /\ newTarget = getFROSTTargetC(env)

\* C8 as stated: in WARM mode without BAKE, whenever longLongVacant() is true and
\* the unit has eco bias, computeTargetTemp returns
\* max(WARM target - SETBACK_FULL, FROST target), in every reachable state of the
\* occupancy tracker.
C8_LongLongVacantFullSetback ==
  (CalledInWarm /\ longLongVacant /\ hasEcoBias(env))
    => newTarget = fnmax(getWARMTargetC(env) - SETBACK_FULL, getFROSTTargetC(env))

\* C8 as amended: in WARM mode without BAKE, whenever longLongVacant() is true,
\* the unit has eco bias and the room is not likely occupied now
\* (occupationCountdownM is 0: no markAsPossiblyOccupied() since the last
\* read()), computeTargetTemp returns max(WARM target - SETBACK_FULL, FROST
\* target).
C8_LongLongVacantUnoccupiedFullSetback ==
  (CalledInWarm /\ longLongVacant /\ hasEcoBias(env) /\ isLikelyUnoccupied)
    => newTarget = fnmax(getWARMTargetC(env) - SETBACK_FULL, getFROSTTargetC(env))

\* C8 witness: after more than longLongVacantHThrH hours of vacancy, with the room
\* lit, a WARM schedule active and recent UI use, the full setback was applied
\* and stayed above the FROST target.
C8_Witness ==
  /\ CalledInWarm
  /\ longLongVacant
  /\ isLikelyUnoccupied
  /\ hasEcoBias(env)
  /\ env.isRoomLit /\ env.scheduleOnWARMNow /\ env.recentUIControlUse
  /\ newTarget = getWARMTargetC(env) - SETBACK_FULL
  /\ newTarget > getFROSTTargetC(env)

\* C9: in WARM mode without BAKE, if the room is not long vacant and either a WARM
\* schedule is active now or there has been recent manual UI use,
\* computeTargetTemp returns the WARM target unchanged.
C9_NoSetbackWhenScheduledOrUI ==
  (CalledInWarm /\ ~longVacant /\ ~longLongVacant
     /\ (env.scheduleOnWARMNow \/ env.recentUIControlUse))
    => newTarget = getWARMTargetC(env)

\* C9 witness: the room was dark and not likely occupied, which alone would set
\* the target back by a degree or more, but recent UI use kept the WARM target.
C9_Witness ==
  /\ CalledInWarm
  /\ ~longVacant
  /\ isLikelyUnoccupied
  /\ env.darkOver10M /\ env.inBottomQuartileOcc
  /\ env.recentUIControlUse /\ ~env.scheduleOnWARMNow
  /\ getWARMTargetC(env) - SETBACK_DEFAULT >= getFROSTTargetC(env)
  /\ newTarget = getWARMTargetC(env)

\* C10: whenever inBakeMode() is true, computeTargetTemp returns
\* min(WARM target + BAKE_UPLIFT, MAX_TARGET_C), whatever the occupancy, vacancy,
\* ambient-light, schedule and stats inputs.
C10_BakeTargetIsUpliftedWarm ==
  (Called /\ inBakeMode)
    => newTarget = fnmin(getWARMTargetC(env) + BAKE_UPLIFT, MAX_TARGET_C)

\* C10 witness: in BAKE, long long vacant and dark, the target was the WARM
\* target plus the uplift, above anything a setback would give.
C10_Witness ==
  /\ Called
  /\ inBakeMode
  /\ longLongVacant
  /\ env.darkOver10M
  /\ newTarget = getWARMTargetC(env) + BAKE_UPLIFT
  /\ newTarget < MAX_TARGET_C


(***************************************************************************)
(* Claims about the mode calls and computeCallForHeat() (SpecHeat).        *)
(***************************************************************************)
\* C11: after any sequence of setWarmModeDebounced, startBakeDebounced,
\* cancelBakeDebounced and computeCallForHeat calls a non-zero BAKE countdown
\* implies WARM mode; a step that leaves WARM mode leaves the countdown at 0, and
\* a step that enters WARM mode either is startBakeDebounced (countdown
\* BAKE_MAX_M) or leaves the countdown at 0, so BAKE is never resumed.
C11_BakeOnlyInWarm ==
  [][/\ bakeCountdownM # 0 => isWarmMode
     /\ bakeCountdownM' # 0 => isWarmMode'
     /\ ~isWarmMode' => bakeCountdownM' = 0
     /\ (~isWarmMode /\ isWarmMode' /\ bakeCountdownM' # BAKE_MAX_M)
          => bakeCountdownM' = 0]_vars

\* FROST mode with no BAKE pending, after a computeCallForHeat() that ran in
\* BAKE: setWarmModeDebounced(false) has cancelled a running BAKE.
C11_Witness ==
  /\ ~isWarmMode
  /\ bakeCountdownM = 0
  /\ inputState.inBakeMode

\* C13: within each computeCallForHeat() the BAKE countdown is updated first (0
\* if the valve was not calling for heat on entry, else one less if positive);
\* the target and the input state are then computed from the updated BAKE state
\* (inBakeMode, the BAKE target only while BAKE is still running); and the valve
\* tick of the call consumes that input state: the raw temperature it shifts in
\* and the valve position it computes are those of the new input state.
C13_CallForHeatOrder ==
  [][HeatComputeCallForHeat =>
       /\ bakeCountdownM' = IF ~callingForHeat THEN 0
                            ELSE IF bakeCountdownM > 0 THEN bakeCountdownM - 1
                            ELSE 0
       /\ inputState'.inBakeMode = (isWarmMode' /\ bakeCountdownM' # 0)
       /\ inputState'.targetTempC = newTarget'
       /\ inputState'.inBakeMode
            => newTarget' = fnmin(getWARMTargetC(env') + BAKE_UPLIFT, MAX_TARGET_C)
       /\ (isWarmMode' /\ ~inputState'.inBakeMode)
            => newTarget' <= getWARMTargetC(env')
       /\ prevRawTempC16'[1] = inputState'.refTempC16 - refTempOffsetC16
       /\ value' = computeRequiredTRVPercentOpen(
                     value, inputState',
                     RetainedState(isFiltering', prevRawTempC16',
                                   tickCountdown(valveTurndownCountdownM),
                                   tickCountdown(valveTurnupCountdownM)))]_vars

\* A call that found BAKE just started and the valve calling for heat: the
\* countdown has run down by one, and the target and the tick are BAKE's.
C13_Witness ==
  /\ bakeCountdownM = BAKE_MAX_M - 1
  /\ inputState.inBakeMode
  /\ newTarget = fnmin(getWARMTargetC(env) + BAKE_UPLIFT, MAX_TARGET_C)
  /\ inputState.targetTempC = newTarget
  /\ value = inputState.maxPCOpen


(***************************************************************************)
(* Claims about the FROST and WARM targets (SpecTargets).                  *)
(***************************************************************************)
\* C12: after any sequence of setFROSTTargetC and setWARMTargetC calls, any
\* stored byte values and any dial position, getFROSTTargetC() <=
\* getWARMTargetC() and both lie within [MIN_TARGET_C, MAX_TARGET_C].
C12_FrostNotAboveWarm ==
  /\ frostTargetC <= warmTargetC
  /\ frostTargetC \in MIN_TARGET_C..MAX_TARGET_C
  /\ warmTargetC \in MIN_TARGET_C..MAX_TARGET_C


(***************************************************************************)
(* Claims about the occupancy tracker (SpecOccupancy, SpecOccupancyRace).  *)
(***************************************************************************)
\* C14 as stated: in every reachable state of the tracker the stored
\* confidence percent is 0 whenever occupationCountdownM is 0.
C14_ConfidenceZeroWhenCountdownZero ==
  occupationCountdownM = 0 => occupancyValue = 0

\* C14 as amended: whenever occupationCountdownM is 0 the stored confidence
\* percent is at most the confidence of one remaining minute (2), the value of
\* the read() that ran the countdown out; and every read() that finds the
\* countdown at 0 stores a confidence of 0.
C14_ConfidenceZeroAfterReadAtZero ==
  [][/\ occupationCountdownM' = 0
          => occupancyValue' <= 100 - (OCCUPATION_TIMEOUT_M - 1) * 2
     /\ (TrackerRead /\ occupationCountdownM = 0) => occupancyValue' = 0]_vars

\* The countdown of a marking has run out and one more read() has run: the
\* room has been vacant for a minute and the stored confidence is 0.
C14_Witness ==
  /\ readsSinceMark = OCCUPATION_TIMEOUT_1_M + 1
  /\ occupationCountdownM = 0
  /\ vacancyM = 1
  /\ occupancyValue = 0

\* C15: read() always returns a confidence in [0,100], equal to
\* 100 - (OCCUPATION_TIMEOUT_M - countdown) * 2 for the countdown it finds (0
\* when that countdown is 0); without a marking in between the returned values
\* are non-increasing, and from the (OCCUPATION_TIMEOUT_M + 1)th read() after
\* the last marking on they are 0.
C15_ConfidenceRunsDown ==
  [][TrackerRead =>
       /\ occupancyValue' \in 0..100
       /\ occupancyValue' =
            IF occupationCountdownM = 0 THEN 0
            ELSE 100 - (OCCUPATION_TIMEOUT_M - occupationCountdownM) * 2
       /\ readsSinceMark >= 1 => occupancyValue' <= occupancyValue
       /\ readsSinceMark' > OCCUPATION_TIMEOUT_M => occupancyValue' = 0]_vars

\* The (OCCUPATION_TIMEOUT_M + 1)th read() after the room was marked as occupied
\* for the full timeout: the first to return 0.
C15_Witness ==
  /\ readsSinceMark = OCCUPATION_TIMEOUT_M + 1
  /\ occupancyValue = 0
  /\ occupationCountdownM = 0
  /\ vacancyM = 1
  /\ vacancyH = 0
  /\ activityCountdownM = 0


\* The fields that C16 names.
countersOf(o) ==
  <<o.occupationCountdownM, o.vacancyM, o.vacancyH, o.activityCountdownM>>

\* C16: whenever the interrupt is raised relative to read(), once both have
\* run the countdown, the vacancy counters and the activity countdown are those
\* of read() then markAsPossiblyOccupied(), or of markAsPossiblyOccupied() then
\* read(), run whole from the starting state.
C16_NoTornUpdate ==
  (readPC = "done" /\ irq = "served")
    => countersOf(occ) \in
         { countersOf(markAsPossiblyOccupied(read(occAtStart))),
           countersOf(read(markAsPossiblyOccupied(occAtStart))) }

\* The interrupt was raised inside read()'s ATOMIC_BLOCK, on a vacant room, and
\* was served after it: the vacancy time has run up and the room is then marked.
C16_Witness ==
  /\ readPC = "done"
  /\ irq = "served"
  /\ occAtStart.occupationCountdownM = 0
  /\ occAtStart.vacancyM = 59
  /\ vacancyM = 0
  /\ vacancyH = occAtStart.vacancyH + 1
  /\ occupationCountdownM = OCCUPATION_TIMEOUT_1_M
  /\ activityCountdownM = 2


(***************************************************************************)
(* Claims about the stats store (SpecQuartile, SpecSmooth, SpecStats).     *)
(***************************************************************************)
Queried == quartileQuery # <<>>

\* The hours of the set under query that are unset.
unsetHoursOf(sE) == { hh \in 1..StatsSetSize : sE[hh] = STATS_UNSET_INT }

\* C17: if at least one of the 24 hourly bytes of the stats set is unset, the
\* quartile query returns false, for every sample value, every position of the
\* unset bytes and both the top and the bottom query.
C17_IncompleteSetNotInQuartile ==
  (Queried /\ unsetHoursOf(eeStatsSet) # {}) => ~quartileQuery.result

\* The sample of the query ranks against the 24 values as inTopQuartile() and
\* inBottomQuartile() are said to count: strictly, 18 or more to one side.
C18_CountsStrictly ==
  /\ quartileQuery.inTop =>
       (quartileQuery.result <=>
          Cardinality({ hh \in 1..24 : eeStatsSet[hh] < quartileQuery.sample }) >= 18)
  /\ ~quartileQuery.inTop =>
       (quartileQuery.result <=>
          Cardinality({ hh \in 1..24 : eeStatsSet[hh] > quartileQuery.sample }) >= 18)

smoothedExactly(c) ==
  (c.oldSmoothed * 8 - c.oldSmoothed + c.newValue + c.stocAdd) \div 8

\* C19: for all byte pairs (old, new) and every stochastic-rounding value in
\* [0, 2^STATS_SMOOTH_SHIFT), smoothStatsValue(old, new) is at most max(old, new)
\* and at least min(old, new), and no 8- or 16-bit overflow occurs: when old and
\* new differ the result is the value of the expression in unbounded arithmetic.
C19_SmoothedBetweenOldAndNew ==
  smoothCall # <<>> =>
     /\ smoothCall.result <= fnmax(smoothCall.oldSmoothed, smoothCall.newValue)
     /\ smoothCall.result >= fnmin(smoothCall.oldSmoothed, smoothCall.newValue)
     /\ smoothCall.oldSmoothed # smoothCall.newValue =>
          smoothCall.result = smoothedExactly(smoothCall)

\* The largest operands with the largest rounding value: the 16-bit sum is 2046.
C19_Witness ==
  /\ smoothCall # <<>>
  /\ smoothCall.oldSmoothed = 255
  /\ smoothCall.newValue = 254
  /\ smoothCall.stocAdd = 7
  /\ smoothCall.result = 255


\* The step is a full sample: sampleStats(true).
fullSampleTaken == statsSamplesTaken' # statsSamplesTaken

\* C20: across any sequence of sampleStats calls, a smoothed byte that is set
\* (not 0xFF) never becomes 0xFF again, for all recorded values and all
\* stochastic-rounding outcomes; at a full sample the last-value byte of the
\* hour is overwritten with the new sample, which is in [0,254], and an unset
\* smoothed byte of the hour is seeded with it.
C20_SmoothedStaysSet ==
  [][ /\ \A set \in DOMAIN eeStats : \A hh \in 0..23 :
           eeStats[set].smoothed[hh] # 255 => eeStats'[set].smoothed[hh] # 255
      /\ fullSampleTaken =>
           \A set \in DOMAIN eeStats :
              /\ statsUpdate'.v[set] \in 0..254
              /\ eeStats'[set].last[statsUpdate'.hh] = statsUpdate'.v[set]
              /\ eeStats[set].smoothed[statsUpdate'.hh] = 255 =>
                   eeStats'[set].smoothed[statsUpdate'.hh] = statsUpdate'.v[set]
              /\ eeStats'[set].smoothed[statsUpdate'.hh] # 255 ]_vars

\* A full sample made of two sub-samples has been smoothed into a set byte that
\* held another value, and the ambient light reading was constrained to 254.
C20_Witness ==
  /\ statsUpdate # <<>>
  /\ statsUpdate.sc = 2
  /\ statsUpdate.v.ambLight = 254
  /\ eeStats.ambLight.last[statsUpdate.hh] = 254
  /\ eeStats.ambLight.smoothed[statsUpdate.hh] \in 1..253


(***************************************************************************)
(* Claims about the temperature codec (SpecCodec) and zapStats() (SpecZap, *)
(* SpecZapFair).                                                           *)
(***************************************************************************)
\* The precision step, in 16ths of a degree, of the band that holds tempC16.
bandStep(tempC16) == IF tempC16 >= 16 * 16 /\ tempC16 < 24 * 16 THEN 2 ELSE 8

\* C21: for every t in [0, 1600], compressTempC16 is non-decreasing in t, never
\* returns 0xFF, and expandTempC16(compressTempC16(t)) is not above t and differs
\* from t by less than the step of t's band (8 below 16 C and from 24 C up, 2 in
\* [16 C, 24 C)); inputs below 0 or above 100 C compress as 0 C and 100 C.
C21_CodecRoundTrip ==
  codecCall # <<>> =>
     /\ codecCall.compressed <= codecCall.compressedNext
     /\ codecCall.compressed # 255
     /\ codecCall.tempC16 \in 0..1600 =>
          /\ codecCall.expanded <= codecCall.tempC16
          /\ codecCall.tempC16 - codecCall.expanded < bandStep(codecCall.tempC16)
     /\ codecCall.tempC16 < 0 => codecCall.compressed = 0
     /\ codecCall.tempC16 > 1600 => codecCall.compressed = 248
     /\ codecCall.tempC16 = 0 => codecCall.compressed = 0
     /\ codecCall.tempC16 = 1600 => codecCall.compressed = 248

\* A temperature in the middle band that is not a multiple of its step: the
\* round trip loses the odd 16th.
C21_Witness ==
  /\ codecCall # <<>>
  /\ codecCall.tempC16 = 20 * 16 + 5
  /\ codecCall.compressed = 64 + 2
  /\ codecCall.expanded = 20 * 16 + 4


\* The bytes of the stats area that are not erased.
bytesToErase(area) == { p \in DOMAIN area : area[p] # 255 }

\* C22: zapStats(maxBytesToErase) returns true exactly when, on return, every
\* byte of the stats area is erased, and false exactly when some byte remains
\* to be erased.
C22_ZapReturnsWhetherAllErased ==
  zapCall # <<>> => (zapCall.result <=> bytesToErase(eeStatsSet) = {})

\* C23: calling zapStats repeatedly with a budget n >= 1 and no stats writes in
\* between, a call erases at most n bytes and never un-erases a byte, and after
\* finitely many calls a call returns true with every stats byte erased.
C23_ZapErasesWithinBudgetAndFinishes ==
  /\ [][ /\ bytesToErase(eeStatsSet') \subseteq bytesToErase(eeStatsSet)
         /\ zapCall'.maxBytesToErase >= 1 =>
              Cardinality(bytesToErase(eeStatsSet) \ bytesToErase(eeStatsSet'))
                <= zapCall'.maxBytesToErase ]_vars
  /\ <>(zapCall # <<>> /\ zapCall.result /\ bytesToErase(eeStatsSet) = {})

\* A call with budget 2 has returned true on an area that had bytes to erase at
\* the start, with everything erased.
C23_Witness ==
  /\ zapCall # <<>>
  /\ zapCall.maxBytesToErase = 2
  /\ zapCall.result
  /\ bytesToErase(eeStatsSet) = {}


(***************************************************************************)
(* Claims about the noise filter, the hysteresis countdowns and the        *)
(* movement record of tick() (SpecStartUp, SpecHunt, SpecStep).            *)
(***************************************************************************)
\* C24: on the first tick after start-up, for every first raw temperature
\* reading, the whole raw-temperature history is filled with that reading and
\* the noise filter is not engaged at the end of that tick.
C24_FirstTickFillsHistory ==
  [][~initialised =>
       /\ initialised'
       /\ \A i \in 1..FilterLength :
            prevRawTempC16'[i] = inputState'.refTempC16 - refTempOffsetC16
       /\ ~isFiltering']_vars

\* The first tick has run on a reading far from the 0 that the history holds
\* at construction.
C24_Witness ==
  /\ initialised
  /\ inputState.refTempC16 = 16 * StartUpTargetC + 480
  /\ prevRawTempC16[FilterLength] = 16 * StartUpTargetC + 480 - refTempOffsetC16
  /\ ~isFiltering


\* C25 as stated: after a tick that lowered the valve percent, no later tick
\* raises it while the countdown armed by that move is still non-zero, whatever
\* the temperature, the mode (BAKE included) and the flags.
C25_NoReopenWhileTurndownPending ==
  [][valveTurndownCountdownM > 1 => value' <= value]_vars

\* The closing step of a tick above target that takes TRV_SLEW_PC_PER_MIN_FAST
\* from a valve percent below it, and so wraps round as uint8_t.
closingStepWraps ==
  /\ AboveTarget'
  /\ value < TRV_SLEW_PC_PER_MIN_FAST
  /\ value' = value - TRV_SLEW_PC_PER_MIN_FAST + 256

\* C25 amended: after a tick that lowered the valve percent, a later tick in
\* which the countdown armed by that move is still non-zero after the tick's own
\* decrement raises the valve percent only in BAKE mode (which opens to
\* maxPercentOpen at once) or by a closing step above target that wraps below 0.
C25_ReopenWhileTurndownPendingOnlyInBake ==
  [][(valveTurndownCountdownM > 1 /\ value' > value) =>
        (inputState'.inBakeMode \/ closingStepWraps)]_vars

\* The last tick was below target and outside BAKE with the turn-down countdown
\* pending, and the valve, below its maximum, was held.
C25_Witness ==
  /\ BelowTarget
  /\ ~inputState.inBakeMode
  /\ valveTurndownCountdownM \in 1..(DEFAULT_ANTISEEK_VALVE_REOPEN_DELAY_M - 1)
  /\ ~valveMoved
  /\ value < inputState.maxPCOpen

\* C26 as stated: after a tick that raised the valve percent, no later tick
\* lowers it while the countdown armed by that move is still non-zero, whatever
\* the temperature and the input state (a changed maxPercentOpen included).
C26_NoRecloseWhileTurnupPending ==
  [][valveTurnupCountdownM > 1 => value' >= value]_vars

\* C26 amended: after a tick that raised the valve percent, a later tick in
\* which the countdown armed by that move is still non-zero after the tick's own
\* decrement lowers the valve percent only when the temperature is below target
\* and the valve stands above maxPercentOpen: it is then set to maxPercentOpen.
C26_RecloseWhileTurnupPendingOnlyToMax ==
  [][(valveTurnupCountdownM > 1 /\ value' < value) =>
        (BelowTarget' /\ value' = inputState'.maxPCOpen)]_vars

\* The last tick was above target with the turn-up countdown pending, and the
\* open valve was held.
C26_Witness ==
  /\ AboveTarget
  /\ valveTurnupCountdownM \in 1..(DEFAULT_ANTISEEK_VALVE_RECLOSE_DELAY_M - 1)
  /\ ~valveMoved
  /\ value > 0


\* Two adjacent samples of the history differ by more than MAX_TEMP_JUMP_C16.
jumpInHistory(hist) ==
  \E i \in 2..FilterLength : abs(hist[i] - hist[i - 1]) > MAX_TEMP_JUMP_C16

\* Every sample of the history is the same reading.
steadyHistory(hist) == \A i \in 1..FilterLength : hist[i] = hist[1]

\* C27: at the end of every tick, if any two adjacent samples in the retained
\* raw-temperature history differ by more than MAX_TEMP_JUMP_C16 then isFiltering
\* is true; the filter is switched off in a tick only if the mean of the history
\* is within MAX_TEMP_JUMP_C16 of the latest raw sample.
C27_FilterFollowsJumps ==
  [][/\ jumpInHistory(prevRawTempC16') => isFiltering'
     /\ (isFiltering /\ ~isFiltering') =>
          abs(getSmoothedRecent(prevRawTempC16') - prevRawTempC16'[1])
            <= MAX_TEMP_JUMP_C16]_vars

\* The filter is engaged after a jump between the last two readings, the
\* reading before that one being close to it.
C27_Witness ==
  /\ Ticked
  /\ isFiltering
  /\ abs(prevRawTempC16[1] - prevRawTempC16[2]) > MAX_TEMP_JUMP_C16
  /\ abs(prevRawTempC16[2] - prevRawTempC16[3]) \in 1..MAX_TEMP_JUMP_C16

\* C28: if the raw temperature is identical on filterLength consecutive ticks
\* (the history then holds that one reading throughout), the noise filter is off
\* by the end of the last of those ticks, and it stays off for as long as the
\* raw temperature does not change.
C28_SteadyTemperatureSwitchesFilterOff ==
  [][steadyHistory(prevRawTempC16') => ~isFiltering']_vars

\* The temperature has been steady for filterLength ticks, after the valve had
\* been moved under other readings, and the filter is off.
C28_Witness ==
  /\ Ticked
  /\ steadyHistory(prevRawTempC16)
  /\ prevRawTempC16[1] = 16 * HuntTargetC + 40 - refTempOffsetC16
  /\ ~isFiltering
  /\ value \in 1..9

\* C29: in every tick, valveMoved is true iff the valve percent changed in that
\* tick and cumulativeMovementPC grows by exactly the absolute change; in a tick
\* where the computed percent equals the current one the valve percent and
\* cumulativeMovementPC are unchanged and neither hysteresis countdown is
\* re-armed: each only decrements toward 0.
C29_MovementRecorded ==
  [][/\ valveMoved' <=> value' # value
     /\ cumulativeMovementPC' = cumulativeMovementPC + abs(value' - value)
     /\ value' = value =>
          /\ valveTurndownCountdownM' =
               fnmax(valveTurndownCountdownM - 1, 0)
          /\ valveTurnupCountdownM' = fnmax(valveTurnupCountdownM - 1, 0)]_vars

\* A closing move has been recorded: the valve moved down in the last tick and
\* the turn-down countdown was armed.
C29_Witness ==
  /\ Ticked
  /\ valveMoved
  /\ valveTurndownCountdownM = DEFAULT_ANTISEEK_VALVE_REOPEN_DELAY_M
  /\ cumulativeMovementPC > value

\* C30: outside BAKE mode a single tick never raises the valve percent by more
\* than max(TRV_SLEW_PC_PER_MIN_FAST, minPercentOpen), for every starting
\* position and temperature.
C30_OpensSlowly ==
  [][~inputState'.inBakeMode =>
       value' - value <= fnmax(TRV_SLEW_PC_PER_MIN_FAST, inputState'.minPCOpen)]_vars

(***************************************************************************)
(* Claims about glacial mode and the proportional band (SpecStep).         *)
(***************************************************************************)
\* The retained state that the computeRequiredTRVPercentOpen() of the tick now
\* being taken reads: the filter and history as the tick leaves them, the
\* hysteresis countdowns after the tick's own decrement.
retainedStateRead ==
  RetainedState(isFiltering', prevRawTempC16',
                tickCountdown(valveTurndownCountdownM),
                tickCountdown(valveTurnupCountdownM))

\* C31 as stated: when glacial mode is explicitly requested and BAKE is not
\* active, every tick changes the valve percent by at most 1, in either
\* direction, whether the temperature is below, within or above the target
\* degree.
C31_GlacialMovesByOne ==
  [][(inputState'.glacial /\ ~inputState'.inBakeMode)
       => abs(value' - value) <= 1]_vars

\* C31 as amended: when glacial mode is explicitly requested and BAKE is not
\* active, a tick with the temperature below or within the target degree changes
\* the valve percent by at most 1 (except that below target a valve standing
\* above maxPercentOpen is set to maxPercentOpen); a tick with the temperature
\* above the target degree takes no account of the glacial flag: the valve
\* percent it produces is the one it would produce without the request.
C31_GlacialMovesByOneUnlessAboveTarget ==
  [][(inputState'.glacial /\ ~inputState'.inBakeMode) =>
       IF AboveTarget'
         THEN value' = closeValveDown(value, [inputState' EXCEPT !.glacial = FALSE],
                                      retainedStateRead)
         ELSE IF BelowTarget' /\ value > inputState'.maxPCOpen
           THEN value' = inputState'.maxPCOpen
           ELSE abs(value' - value) <= 1]_vars

\* C31 witness: a glacial tick within the target degree has just closed the
\* valve, by 1.
C31_Witness ==
  /\ Ticked
  /\ inputState.glacial
  /\ ~inputState.inBakeMode
  /\ lastAdjustedTempC = inputState.targetTempC
  /\ valveMoved
  /\ valveTurndownCountdownM = DEFAULT_ANTISEEK_VALVE_REOPEN_DELAY_M
  /\ valveTurnupCountdownM = 0
  /\ cumulativeMovementPC = 1

\* The last tick found the (possibly filtered) temperature within the target
\* degree.
WithinTarget == Ticked /\ lastAdjustedTempC = inputState.targetTempC

\* x lies between a and b inclusive, whichever of a and b is the larger.
between(x, a, b) == fnmin(a, b) <= x /\ x <= fnmax(a, b)

\* C32: when the (possibly filtered) temperature is within the target degree and
\* BAKE is not active, the new valve percent lies between the current percent and
\* the proportional target percent (16 minus the temperature's low 4 bits, times
\* 6, clamped to [minPercentOpen, maxPercentOpen]) inclusive; it equals the
\* current percent whenever the distance to the target is below the deadband
\* threshold; and that threshold is never smaller with widenDeadband set than
\* without.
C32_MovesTowardsProportionalTarget ==
  [][(WithinTarget' /\ ~inputState'.inBakeMode) =>
       \E t \in {(16 - (adjustedTempC16(inputState', retainedState') % 16)) * 6} :
       \E target \in {IF t < inputState'.minPCOpen THEN inputState'.minPCOpen
                      ELSE IF t > inputState'.maxPCOpen THEN inputState'.maxPCOpen
                      ELSE t} :
         /\ between(value', value, target)
         /\ abs(value - target) < minAbsSlewOf(inputState') => value' = value
         /\ minAbsSlewOf([inputState' EXCEPT !.widenDeadband = TRUE])
              >= minAbsSlewOf([inputState' EXCEPT !.widenDeadband = FALSE])]_vars

\* C32 witness: a tick within the target degree has moved the valve, by more
\* than 1 and not more than the fast slew rate, exactly onto a proportional
\* target that lies strictly inside the limits.
C32_Witness ==
  /\ WithinTarget
  /\ ~inputState.inBakeMode
  /\ valveMoved
  /\ cumulativeMovementPC > 1
  /\ cumulativeMovementPC <= TRV_SLEW_PC_PER_MIN_FAST
  /\ value = (16 - (adjustedTempC16(inputState, retainedState) % 16)) * 6
  /\ value > inputState.minPCOpen
  /\ value < inputState.maxPCOpen

(***************************************************************************)
(* Claims about the final close of the valve (SpecLinger).                 *)
(***************************************************************************)
\* The last tick found the (possibly filtered) temperature more than one degree
\* above the target.
WellAboveTarget == Ticked /\ lastAdjustedTempC > inputState.targetTempC + 1

\* C33: while the temperature stays more than one degree above target and no
\* turn-up hysteresis is pending, a valve at or above minPercentOpen with eco
\* bias and no filtering drops to minPercentOpen-1 in one tick; a valve below
\* minPercentOpen closes by exactly 1% per tick, and is set to 0 in a single
\* step once it is more than DEFAULT_MAX_RUN_ON_TIME_M below minPercentOpen; so
\* from minPercentOpen-1 the valve is fully shut within
\* DEFAULT_MAX_RUN_ON_TIME_M + 1 ticks: every such tick moves the valve, the
\* steps of 1% take it no lower than DEFAULT_MAX_RUN_ON_TIME_M below
\* minPercentOpen-1 and the tick after that shuts it.
C33_LingeringClose ==
  /\ [][(WellAboveTarget' /\ ~dontTurndown(tickCountdown(valveTurnupCountdownM))) =>
          /\ (value >= inputState'.minPCOpen /\ inputState'.hasEcoBias /\ ~isFiltering')
               => value' = inputState'.minPCOpen - 1
          /\ (0 < value /\ value < inputState'.minPCOpen) =>
               /\ valveMoved'
               /\ value' = IF value < inputState'.minPCOpen - DEFAULT_MAX_RUN_ON_TIME_M
                             THEN 0 ELSE value - 1
               /\ value + cumulativeMovementPC = inputState'.minPCOpen - 1 =>
                    \/ value' = 0
                    \/ cumulativeMovementPC' <= DEFAULT_MAX_RUN_ON_TIME_M]_vars
  /\ (Ticked /\ value = inputState.minPCOpen - 1) ~> (value = 0)

\* C33 witness: a valve that stood at minPercentOpen-1 has lingered down by 1% a
\* tick for DEFAULT_MAX_RUN_ON_TIME_M ticks and has then been shut in one step.
C33_Witness ==
  /\ WellAboveTarget
  /\ DEFAULT_MAX_RUN_ON_TIME_M + 1 < inputState.minPCOpen
  /\ value = 0
  /\ valveMoved
  /\ cumulativeMovementPC = inputState.minPCOpen - 1

(***************************************************************************)
(* Claims about BAKE (SpecBake).                                           *)
(***************************************************************************)
\* The BAKE target: the WARM target of the last computeTargetTemp(), uplifted.
bakeTargetC == fnmin(getWARMTargetC(env) + BAKE_UPLIFT, MAX_TARGET_C)

\* C34: after startBakeDebounced(), with no user cancel and no switch to FROST,
\* computeCallForHeat() ends BAKE only when the countdown has run out or the room
\* temperature (as read by this call or by the computeTargetTemperature() before
\* it) has reached the BAKE (uplifted) target; in particular a BAKE started while
\* the room is at or above the plain WARM target but below the uplifted target
\* is still active after the next computeCallForHeat().
C34_BakeEndsOnTimeoutOrTarget ==
  [][(BakeComputeCallForHeat /\ inBakeMode /\ ~inBakeMode') =>
       \/ bakeCountdownM = 1
       \/ Shr4(inputState'.refTempC16) >= bakeTargetC'
       \/ (inputState # NoInput /\ Shr4(inputState.refTempC16) >= bakeTargetC')]_vars

\* C35: BAKE always times out.  The BAKE countdown never exceeds BAKE_MAX_M and
\* never increases except through startBakeDebounced(), which sets it to
\* BAKE_MAX_M; every computeCallForHeat() leaves it at 0 or lowers it by 1, for
\* every temperature; so inBakeMode() is false within BAKE_MAX_M calls of
\* computeCallForHeat() after the last startBakeDebounced(), and once false it
\* stays false until the next startBakeDebounced().
C35_BakeTimesOut ==
  [][/\ bakeCountdownM <= BAKE_MAX_M
     /\ bakeCountdownM' > bakeCountdownM => BakeStartBakeDebounced
     /\ BakeComputeCallForHeat =>
          \/ bakeCountdownM' = 0
          \/ bakeCountdownM' = bakeCountdownM - 1
     /\ (~inBakeMode /\ inBakeMode') => BakeStartBakeDebounced]_vars

\* C35 witness: BAKE has run down to its last minute, the valve held at
\* maxPercentOpen throughout in a room below the BAKE target.
C35_Witness ==
  /\ inBakeMode
  /\ bakeCountdownM = 1
  /\ inputState.inBakeMode
  /\ callingForHeat
  /\ value = inputState.maxPCOpen
  /\ cumulativeMovementPC = inputState.maxPCOpen

(***************************************************************************)
(* Claims about vacancy time (SpecOccupancy).                              *)
(***************************************************************************)
\* C36 as stated: in every reachable state after any interleaving of
\* markAsPossiblyOccupied() and read(), a non-zero vacancy implies
\* occupationCountdownM = 0, vacancyM is below 60 and vacancyH is at most 255; so
\* longVacant() and longLongVacant() are never true while the room is marked as
\* possibly occupied.
C36_VacancyOnlyWhileCountdownZero ==
  /\ (vacancyM > 0 \/ vacancyH > 0) => occupationCountdownM = 0
  /\ vacancyM < 60
  /\ vacancyH <= 255
  /\ (longVacant \/ longLongVacant) => ~isLikelyOccupied

\* C36 as amended: vacancy time is raised only by a read() that finds the
\* occupation countdown at zero; vacancyM stays below 60 and vacancyH saturates
\* at 255; after every read() a non-zero vacancy implies occupationCountdownM = 0,
\* so that longVacant() and longLongVacant() are false while the room is likely
\* occupied.  markAsPossiblyOccupied() leaves the vacancy time as it is: between
\* the marking and the next read() the vacancy can be non-zero, and longVacant()
\* true, with a non-zero countdown.
C36_VacancyCountedOnlyWhileCountdownZero ==
  [][/\ (vacancyM' > vacancyM \/ vacancyH' > vacancyH)
          => (TrackerRead /\ occupationCountdownM = 0 /\ occupationCountdownM' = 0)
     /\ vacancyM' < 60
     /\ vacancyH' <= 255
     /\ (TrackerRead /\ vacancyH = 255 /\ occupationCountdownM = 0)
          => (vacancyH' = 255 /\ vacancyM' = vacancyM)
     /\ TrackerRead =>
          /\ (vacancyM' > 0 \/ vacancyH' > 0) => occupationCountdownM' = 0
          /\ (longVacant' \/ longLongVacant') => ~isLikelyOccupied'
     /\ TrackerMarkAsPossiblyOccupied =>
          (vacancyM' = vacancyM /\ vacancyH' = vacancyH /\ isLikelyOccupied')]_vars

\* C36 witness: the vacancy time has saturated at 255 hours, and the room has
\* then been marked as possibly occupied: it is likely occupied and long vacant
\* until the next read().
C36_Witness ==
  /\ vacancyH = 255
  /\ isLikelyOccupied
  /\ longLongVacant
  /\ readsSinceMark = 0


\* The samples counted since the last full sample, this one included, held
\* more in WARM mode than in FROST mode.  With at most one sub-sample kept
\* per hour, warmCount is the mode of that sub-sample, or 0 without one.
warmOutnumbersFrost ==
  (IF sampleCount_ = 0 THEN 0 ELSE warmCount) + (IF isWarmMode THEN 1 ELSE 0) >
  (IF isWarmMode THEN 0 ELSE 1)

\* C37: after a full sample for an hour, the hour's warm-mode history byte
\* has bit 7 clear and no other hour's byte has changed; the first use sets
\* all seven bits to the current mode; a later full sample shifts bits 6..1
\* down by one, drops the old bit 0 and sets bit 6 exactly when the WARM
\* samples outnumbered the FROST ones since the previous full sample, so
\* that 0x7f stays under a WARM sample and 0x00 under a FROST one; and the
\* sample counts start again from 0.
C37_WarmHistoryRollingWindow ==
  [][fullSampleTaken =>
       \E hh \in {statsUpdate'.hh} :
         /\ eeWarmHistory'[hh] < 128
         /\ \A other \in (0..23) \ {hh} : eeWarmHistory'[other] = eeWarmHistory[other]
         /\ eeWarmHistory[hh] = 255 =>
              eeWarmHistory'[hh] = (IF isWarmMode THEN 127 ELSE 0)
         /\ eeWarmHistory[hh] < 128 =>
              /\ eeWarmHistory'[hh] % 64 = eeWarmHistory[hh] \div 2
              /\ (eeWarmHistory'[hh] >= 64) = warmOutnumbersFrost
         /\ (eeWarmHistory[hh] = 127 /\ warmOutnumbersFrost) => eeWarmHistory'[hh] = 127
         /\ (eeWarmHistory[hh] = 0 /\ ~warmOutnumbersFrost) => eeWarmHistory'[hh] = 0
         /\ warmCount' = 0
         /\ sampleCount_' = 0 ]_vars

\* An hour first used in FROST mode whose next six full samples, all the
\* samples of the behaviour, were counted as WARM: 0x7e, with the other
\* hour still unused.
C37_Witness ==
  /\ statsUpdate # <<>>
  /\ statsSamplesTaken = 7
  /\ eeWarmHistory[statsUpdate.hh] = 126
  /\ \E other \in StatsHours : eeWarmHistory[other] = 255
  /\ warmCount = 0


\* The step ends a clock hour through which the loop has run from its start.
wholeHourEnds == looping /\ rtcHours' # rtcHours /\ hoursRun >= 1

\* C38: in every clock hour of the main loop sampleStats(true) is invoked
\* exactly once, at second 58 of one of the minutes 56 to 59; at most one
\* earlier sub-sample, of that hour, is folded into it, and the sub-sample
\* counter is back to 0 after it.
C38_FullSampleOncePerHour ==
  [][/\ wholeHourEnds => samplesInHour.full = 1
     /\ fullSampleTaken =>
          /\ TIME_LSD' = 58
          /\ rtcMinutes' \in 56..59
          /\ samplesInHour'.full = 1
          /\ statsUpdate'.sc - 1 <= 1
          /\ statsUpdate'.sc - 1 <= samplesInHour.sub
          /\ rtcHours' = rtcHours
          /\ sampleCount_' = 0 ]_vars

\* The same for the clock hours without a loop overrun in them or before
\* them.
FullSampleOncePerHourWithoutOverrun ==
  [][overruns' = 0 =>
       /\ wholeHourEnds => samplesInHour.full = 1
       /\ fullSampleTaken =>
            /\ TIME_LSD' = 58
            /\ rtcMinutes' \in 56..59
            /\ samplesInHour'.full = 1
            /\ statsUpdate'.sc - 1 <= 1
            /\ statsUpdate'.sc - 1 <= samplesInHour.sub
            /\ rtcHours' = rtcHours
            /\ sampleCount_' = 0 ]_vars

\* A whole clock hour without overrun is about to end, with its one full
\* sample of two readings taken.
WholeHourSampled ==
  /\ looping
  /\ hoursRun = 1
  /\ overruns = 0
  /\ rtcMinutes = 59
  /\ TIME_LSD = 58
  /\ samplesInHour = [full |-> 1, sub |-> 1, overran |-> FALSE]
  /\ statsUpdate.sc = 2


\* The ticks for which a heard remote call keeps the boiler on.
minBoilerOnTicks == minBoilerOnMinutes * (60 \div MAIN_TICK_S)

\* C39: in hub mode the boiler output written by an iteration of the loop is
\* on exactly when the remote countdown is positive or the local valve is
\* really open; an iteration that heard a remote call leaves the countdown
\* at getMinBoilerOnMinutes() * (60/MAIN_TICK_S), and the countdown is that
\* many ticks less the iterations since the last heard call, or 0; so the
\* output is written on by that many iterations from the last heard call,
\* and off from then on by every iteration that finds the local valve not
\* really open.
C39_HubBoilerOutput ==
  [][(inHubMode /\ loopTicks' # loopTicks) =>
       /\ heatCallOut' = (boilerCountdownTicks' > 0 \/ valveReallyOpen')
       /\ ticksSinceHeard' = 0 => boilerCountdownTicks' = minBoilerOnTicks
       /\ ticksSinceHeard' = -1 => boilerCountdownTicks' = 0
       /\ ticksSinceHeard' \in 0..(minBoilerOnTicks - 1) =>
            /\ boilerCountdownTicks' = minBoilerOnTicks - ticksSinceHeard'
            /\ heatCallOut'
       /\ ticksSinceHeard' >= minBoilerOnTicks =>
            /\ boilerCountdownTicks' = 0
            /\ heatCallOut' = valveReallyOpen' ]_vars

\* The output has just gone off: the iteration that follows the last heard
\* call by the minimum boiler-on time of two minutes found the countdown run
\* out and the local valve, at the really-open position, recalibrating or
\* with the FHT8V valve shut.
C39_Witness ==
  /\ inHubMode
  /\ minBoilerOnMinutes = 2
  /\ ticksSinceHeard = minBoilerOnTicks
  /\ boilerCountdownTicks = 0
  /\ value = DEFAULT_MIN_VALVE_PC_REALLY_OPEN
  /\ ~valveReallyOpen
  /\ ~heatCallOut
  /\ boilerNoCallM = 0


\* C40: the call-for-heat flag that computeTargetTemperature() sets agrees
\* with the branch that the valve computation of the same minute takes:
\* callingForHeat is false exactly when the temperature used for targeting
\* is above the target, and the valve does not open further in a minute for
\* which callingForHeat is false, with the noise filter engaged or not.
C40_CallForHeatAgreesWithValve ==
  [][BakeComputeCallForHeat =>
       /\ (~callingForHeat') = AboveTarget'
       /\ ~callingForHeat' => value' <= value ]_vars

\* The same for the minutes in which the noise filter stays off.
CallForHeatAgreesWithUnfilteredValve ==
  [][(BakeComputeCallForHeat /\ ~isFiltering') =>
       /\ (~callingForHeat') = AboveTarget'
       /\ ~callingForHeat' => value' <= value ]_vars

====
